---- MODULE Spec2Model ----
(***************************************************************************)
(* Verification model of the avatar chat page (src/app/page.tsx: sentence  *)
(* splitting, ordered speech queue) and of the audio-based lip-sync        *)
(* monitor (src/lib/lipsync.ts).                                           *)
(*                                                                         *)
(* Text is a sequence of one-character strings.  Wide (East-Asian)         *)
(* punctuation marks are written with ASCII names: "JP." is the           *)
(* ideographic full stop, "JP," the ideographic comma, "W!" and "W?" the   *)
(* full-width exclamation and question marks.                              *)
(***************************************************************************)
EXTENDS Integers, Sequences, FiniteSets, TLC

VARIABLES
  \* ---- src/app/page.tsx ----
  audioQueue,            \* audioQueueRef.current
  chunkIdRef,            \* chunkIdRef.current
  isProcessingQueueRef,  \* isProcessingQueueRef.current
  isLoading,             \* React state isLoading
  hsm,                   \* the running handleSendMessage: position and locals
  inflight,              \* /api/generate-audio requests not yet completed
  timers,                \* pending setTimeout(() => processAudioQueue(), ..)
  playing,               \* model.speak calls that have not reported back
  played,                \* history: chunks in the order their speak started
  gen,                   \* history: number of handleSendMessage calls so far
  streamed,              \* history: characters streamed so far, all responses
  enqueuedTexts,         \* history: texts handed to addToAudioQueue by the
                         \* running (or the last) handleSendMessage
  synthLog,              \* history: completed synthesis requests, in order
  lastCallback,          \* history: the playback callback reported last
  \* ---- splitByPunctuation run step by step ----
  spInput, spCompleted, spCurrent, spPc,
  \* ---- src/lib/lipsync.ts, setupAudioBasedLipsync ----
  isMonitoring,          \* let isMonitoring
  animationId,           \* let animationId: "null", or the handle of a
                         \* pending ("live") or of a past ("stale") frame
  orphanFrames,          \* pending analyzeAudio frames animationId lost
  audioCapture,          \* let audioCapture: "null" or the kind of source
  startsAwaiting,        \* startMonitoring runs awaiting setupAudioCapture
  recheckIntervals,      \* active recheckInterval timers
  playListener,          \* an audio element carries the onPlay listener
  attempts,              \* history: the strategies tried, with what each
                         \* yielded, by the startMonitoring run that last
                         \* reached the start of the analysis loop
  mouth,                 \* ParamMouthOpenY, in thousandths
  fallbackTimers,        \* pending 5 second timers of triggerSpeaking
  fallbackLoops,         \* running animateFromText loops: elapsed ms of each
  disposed,              \* dispose() was the last call made on the session
  triggered,             \* history: number of triggerSpeaking calls
  \* ---- which setup function made the lip-sync session ----
  strategy,
  \* ---- src/lib/lipsync.ts, setupTextBasedLipsync ----
  textAnimationId,       \* let animationId: "null" or "live"
  isSpeaking,            \* let isSpeaking
  textClosing,           \* Date.now() - speakingStartTime >= duration
  textTimers,            \* pending delayed triggerSpeaking timers
  textMouth,             \* ParamMouthOpenY, in thousandths
  \* ---- src/lib/lipsync.ts, setupRealtimeEventLipsync ----
  eventAnimationId,      \* let animationId: "null" or "live"
  currentVolume,         \* let currentVolume, in thousandths
  volumeTimers,          \* pending setTimeout(() => currentVolume = 0)
  eventListening,        \* onAudioEvent is registered on the session
  eventMouth,            \* ParamMouthOpenY, in thousandths
  \* ---- src/lib/lipsync.ts, setupRealAudioLipsync (realAudioDeferred) ----
  trackListener,         \* onTrack is registered on the peer connection
  disposeFunc,           \* let disposeFunc: null or the binding it disposes
  bindings,              \* bindings of wireLipsyncFromMediaStream not disposed
  tracksSeen,            \* history: audio track events handled
  \* ---- GeminiLiveChat, GeminiLiveClient, StreamingAudioPlayer ----
  responseQueue,         \* GeminiLiveClient.responseQueue
  awaitingResume,        \* onAudioChunk calls suspended at await resume()
  scheduledSources,      \* StreamingAudioPlayer.scheduledSources
  hasStreamedThisTurn,   \* hasStreamedThisTurnRef.current
  sendPc,                \* "idle", or "waiting" inside waitForTurn
  turns,                 \* the turns collected by waitForTurn
  received,              \* history: messages received from the server
  interruptions,         \* history: interrupted notifications handled
  streamedOut,           \* history: chunks sounded by the streaming player
  spoken,                \* history: chunks sounded by live2dModel.speak
  interruptPending,      \* an interruption was handled since the last frame
  geminiMouth,           \* ParamMouthOpenY as the model's mouthSync sets it
  \* ---- StreamingAudioPlayer scheduling (part_006) ----
  audioContext,          \* StreamingAudioPlayer.audioContext is not null
  now,                   \* audioContext.currentTime, in milliseconds
  playbackTime,          \* StreamingAudioPlayer.playbackTime, in milliseconds
  sourcesLog,            \* history: chunks scheduled since the last flush
  flushed,               \* history: flushAndStop has reset this context's
                         \* playback cursor
  playerDisposed,        \* history: dispose() has been called
  \* ---- src/lib/gemini-live.ts, GeminiLiveClient on its own ----
  sockets,               \* the sessions connect() asked for, in call order:
                         \* the state of each one's WebSocket and whether
                         \* its connect() is still at await live.connect
  isConnected,           \* GeminiLiveClient.isConnected
  session,               \* GeminiLiveClient.session: NoSession (null) or
                         \* the number of the connect() that assigned it
  clientQueue,           \* GeminiLiveClient.responseQueue
  waiting,               \* sendText and sendAudio calls inside waitForTurn
  lastOutcome,           \* what the call that settled last returned or threw
  callsMade,             \* history: sendText, sendAudio, sendAudioChunk calls
  arrived,               \* history: the messages received, in arrival order
  sentPayloads,          \* history: payloads handed to the session
  callbackLog,           \* history: queue pushes, message callbacks and returns
  \* ---- MicPcmStreamer (part_006) ----
  running,               \* MicPcmStreamer.running
  micStream,             \* MicPcmStreamer.stream: null or held
  micPending,            \* start() calls suspended at await getUserMedia
  acquisitions,           \* history: getUserMedia calls
  \* ---- one-shot chat: POST /api/chat (part_003), its page (part_000) ----
  chatMessages,          \* messages of the one-shot chat page
  chatLoading,           \* isLoading of the one-shot chat page
  chatPc,                \* handleSendMessage: idle, fetching or speaking
  chatResponse,          \* the response of POST /api/chat, or NoResponse
  chatModel,             \* model is not null (the Live2D model is loaded)
  speakCalls,            \* history: model.speak calls
  alerts,                \* history: alert calls
  synthesisFailed,       \* history: generateAudioFromText of the response failed
  \* ---- AudioPlayer (part_006) ----
  currentSource,         \* AudioPlayer.currentSource: NoSource (null) or a source
  sourceStates           \* the sources playAudioData started, in order:
                         \* "playing", "stopping" (stop() called, ended
                         \* event not yet delivered) or "ended"

pageVars  == <<audioQueue, chunkIdRef, isProcessingQueueRef, isLoading, hsm,
               inflight, timers, playing, played, gen, streamed, enqueuedTexts, synthLog,
               lastCallback>>
splitVars == <<spInput, spCompleted, spCurrent, spPc>>
fallbackVars == <<fallbackTimers, fallbackLoops, disposed, triggered>>
lipVars   == <<isMonitoring, animationId, orphanFrames, audioCapture,
               startsAwaiting, recheckIntervals, playListener, attempts,
               mouth, fallbackVars>>

(***************************************************************************)
(* Bounds of the model                                                     *)
(***************************************************************************)
MaxResponses == 2   \* handleSendMessage calls explored
MaxStreamLen == 3   \* characters streamed, all responses together
MaxReadLen   == 2   \* characters delivered by one reader.read()
MaxSplitLen  == 4   \* length of the inputs of splitByPunctuation
MaxPending   == 2   \* suspended startMonitoring runs, lost frames, intervals
MaxTriggers  == 2   \* triggerSpeaking calls
MaxMessages  == 4   \* messages received from the Gemini Live server
MaxTracks    == 2   \* audio track events of a peer connection
MaxChunks    == 3   \* chunks enqueued on the player between two flushes
MaxTime      == 300 \* milliseconds of AudioContext time explored
MaxArrivals  == 2   \* messages a GeminiLiveClient receives
MaxCalls     == 1   \* sendText, sendAudio and sendAudioChunk calls
MaxConnects  == 1   \* connect() calls
MaxSessions  == 3   \* connect() calls, the life cycle of sessions alone
MaxPlays     == 5   \* playAudioData calls of an AudioPlayer
MaxAcquisitions == 2 \* getUserMedia calls of the microphone streamer
MaxRequests  == 2   \* messages sent from the one-shot chat page
textVars  == <<textAnimationId, isSpeaking, textClosing, textTimers,
               textMouth>>
eventVars == <<eventAnimationId, currentVolume, volumeTimers, eventListening,
               eventMouth>>
realAudioVars == <<trackListener, disposeFunc, bindings, tracksSeen>>
strategyVars == <<strategy, textVars, eventVars, realAudioVars>>
geminiVars == <<responseQueue, awaitingResume, scheduledSources,
                hasStreamedThisTurn, sendPc, turns, received, interruptions,
                streamedOut, spoken, interruptPending, geminiMouth>>

playerVars == <<audioContext, now, playbackTime, sourcesLog, flushed,
                playerDisposed>>

clientVars == <<sockets, isConnected,
                session, clientQueue, waiting, lastOutcome, callsMade,
                arrived, sentPayloads, callbackLog>>

micVars == <<running, micStream, micPending, acquisitions>>

chatVars == <<chatMessages, chatLoading, chatPc, chatResponse, chatModel, speakCalls, alerts, synthesisFailed>>

soundVars == <<currentSource, sourceStates>>

\* what the steps of one component leave alone
offPage  == <<splitVars, lipVars, strategyVars, geminiVars, playerVars, clientVars, micVars, chatVars, soundVars>>
offSplit == <<pageVars, lipVars, strategyVars, geminiVars, playerVars, clientVars, micVars, chatVars, soundVars>>
offLip   == <<pageVars, splitVars, strategyVars, geminiVars, playerVars, clientVars, micVars, chatVars, soundVars>>
offStrategy == <<pageVars, splitVars, lipVars, geminiVars, playerVars, clientVars, micVars, chatVars, soundVars>>
offGemini == <<pageVars, splitVars, lipVars, strategyVars, playerVars, clientVars, micVars, chatVars, soundVars>>
offPlayer == <<pageVars, splitVars, lipVars, strategyVars, geminiVars, clientVars, micVars, chatVars, soundVars>>
offClient == <<pageVars, splitVars, lipVars, strategyVars, geminiVars, playerVars, micVars, chatVars, soundVars>>
offMic == <<pageVars, splitVars, lipVars, strategyVars, geminiVars, playerVars, clientVars, chatVars, soundVars>>
offChat == <<pageVars, splitVars, lipVars, strategyVars, geminiVars, playerVars, clientVars, micVars, soundVars>>
offSound == <<pageVars, splitVars, lipVars, strategyVars, geminiVars, playerVars, clientVars, micVars, chatVars>>

(***************************************************************************)
(* Text helpers (String.prototype.trim, substring)                         *)
(***************************************************************************)
IsWhitespace(c) == c = " "

RECURSIVE TrimStart(_)
TrimStart(s) ==
  IF Len(s) > 0 /\ IsWhitespace(s[1]) THEN TrimStart(Tail(s)) ELSE s

RECURSIVE TrimEnd(_)
TrimEnd(s) ==
  IF Len(s) > 0 /\ IsWhitespace(s[Len(s)])
  THEN TrimEnd(SubSeq(s, 1, Len(s) - 1)) ELSE s

Trim(s) == TrimEnd(TrimStart(s))

\* sequences over S of length lo..hi
SeqsBetween(S, lo, hi) == UNION {[1..n -> S] : n \in lo..hi}

(***************************************************************************)
(* splitByPunctuation                                                      *)
(***************************************************************************)
punctuationMarks == {"JP.", "JP,", ".", ",", "!", "?", "W!", "W?"}

\* index of the first punctuation mark of s, 0 when there is none
\* (the for loop that breaks at the first match)
FirstPunctuation(s) ==
  IF \E i \in 1..Len(s) : s[i] \in punctuationMarks
  THEN CHOOSE i \in 1..Len(s) :
         /\ s[i] \in punctuationMarks
         /\ \A j \in 1..(i - 1) : s[j] \notin punctuationMarks
  ELSE 0

\* chunk pushed when the mark is found at index i (1-based)
SplitChunkDropMark(currentText, i) == Trim(SubSeq(currentText, 1, i - 1))
SplitChunk(currentText, i) == Trim(SubSeq(currentText, 1, i))

\* one iteration of the while loop; found = FALSE is the break
SplitIteration(completed, currentText) ==
  LET i == FirstPunctuation(currentText) IN
  IF i = 0
  THEN [completed |-> completed, currentText |-> currentText, found |-> FALSE]
  ELSE LET chunk == SplitChunk(currentText, i) IN
       [completed   |-> IF Len(chunk) > 0 THEN Append(completed, chunk)
                        ELSE completed,
        currentText |-> Trim(SubSeq(currentText, i + 1, Len(currentText))),
        found       |-> TRUE]

RECURSIVE SplitLoop(_, _)
SplitLoop(completed, currentText) ==
  IF Len(currentText) = 0
  THEN [completed |-> completed, remaining |-> currentText]
  ELSE LET it == SplitIteration(completed, currentText) IN
       IF it.found THEN SplitLoop(it.completed, it.currentText)
       ELSE [completed |-> completed, remaining |-> currentText]

splitByPunctuation(text) == SplitLoop(<<>>, text)

(***************************************************************************)
(* Ordered speech queue                                                    *)
(***************************************************************************)
NoAudio == <<>>                       \* audioUrl: null
AudioOf(text) == <<"wav">> \o text    \* the audioUrl the synthesis returns for text

\* history identity of a chunk: response number, then chunk id
Uid(x) == <<x.gen, x.id>>
Before(u, v) == u[1] < v[1] \/ (u[1] = v[1] /\ u[2] < v[2])

\* the part of the page state processAudioQueue reads and writes
QueueState ==
  [queue |-> audioQueue, processing |-> isProcessingQueueRef,
   timers |-> timers, playing |-> playing, played |-> played]

\* which item processAudioQueue looks at: audioQueueRef.current[0]
FirstPlayable(queue) ==
  IF \E i \in 1..Len(queue) : queue[i].audioUrl # NoAudio
  THEN CHOOSE i \in 1..Len(queue) :
         /\ queue[i].audioUrl # NoAudio
         /\ \A j \in 1..(i - 1) : queue[j].audioUrl = NoAudio
  ELSE 1
FirstItem(queue) == 1

RemoveAt(queue, i) ==
  SubSeq(queue, 1, i - 1) \o SubSeq(queue, i + 1, Len(queue))

processAudioQueue(s) ==
  IF s.processing \/ Len(s.queue) = 0 THEN s
  ELSE LET k == FirstItem(s.queue)
           firstItem == s.queue[k] IN
       IF firstItem.audioUrl = NoAudio
       THEN [s EXCEPT !.timers = @ + 1]
       ELSE [s EXCEPT !.processing = TRUE,
                      !.queue = RemoveAt(s.queue, k),
                      !.playing = @ \cup {[gen |-> firstItem.gen,
                                           id |-> firstItem.id,
                                           text |-> firstItem.text,
                                           audioUrl |-> firstItem.audioUrl]},
                      !.played = Append(@, Uid(firstItem))]

\* history: the texts of the items a handler appended to the queue
Appended(before, after) ==
  [k \in 1..(Len(after) - Len(before)) |-> after[Len(before) + k].text]

\* the part of the page state addToAudioQueue reads and writes
\* a = [queue, chunkId, inflight, gen]
IssueRequestWhenIdle(a, sentence) ==
  IF Len(a.queue) = 0
  THEN a.inflight \cup {[gen |-> a.gen, id |-> a.chunkId, text |-> sentence]}
  ELSE a.inflight
IssueRequest(a, sentence) ==
  a.inflight \cup {[gen |-> a.gen, id |-> a.chunkId, text |-> sentence]}

addToAudioQueue(a, sentence) ==
  [a EXCEPT !.chunkId = @ + 1,
            !.queue = Append(@, [id |-> a.chunkId, text |-> sentence,
                                 audioUrl |-> NoAudio,
                                 gen |-> a.gen, writes |-> 0]),
            !.inflight = IssueRequest(a, sentence)]

\* a for loop that enqueues every completed chunk
RECURSIVE EnqueueCompletedAll(_, _, _)
EnqueueCompletedAll(a, processed, completed) ==
  IF completed = <<>> THEN [a |-> a, processed |-> processed]
  ELSE EnqueueCompletedAll(addToAudioQueue(a, Head(completed)),
                           Append(processed, Head(completed)),
                           Tail(completed))

\* the for loop over splitResult.completed in handleSendMessage
RECURSIVE EnqueueCompleted(_, _, _)
EnqueueCompleted(a, processed, completed) ==
  IF completed = <<>> THEN [a |-> a, processed |-> processed]
  ELSE LET chunk == Head(completed) IN
       IF \E i \in 1..Len(processed) : processed[i] = chunk
       THEN EnqueueCompleted(a, processed, Tail(completed))
       ELSE EnqueueCompleted(addToAudioQueue(a, chunk),
                             Append(processed, chunk), Tail(completed))

AddState ==
  [queue |-> audioQueue, chunkId |-> chunkIdRef, inflight |-> inflight,
   gen |-> gen]

IdleHandler ==
  [pc |-> "idle", remainingText |-> <<>>, processedSentences |-> <<>>]

PageChars == {"a", ".", "?"}
ReadChunks == SeqsBetween(PageChars, 1, MaxReadLen)

FlushMinLength == 3

PageInit ==
  /\ audioQueue = <<>>
  /\ chunkIdRef = 0
  /\ isProcessingQueueRef = FALSE
  /\ isLoading = FALSE
  /\ hsm = IdleHandler
  /\ inflight = {}
  /\ timers = 0
  /\ playing = {}
  /\ played = <<>>
  /\ gen = 0
  /\ streamed = 0
  /\ enqueuedTexts = <<>>
  /\ synthLog = <<>>
  /\ lastCallback = "none"

\* handleSendMessage up to its first await (fetch of /api/chat)
HandleSendMessage ==
  /\ ~isLoading
  /\ hsm.pc = "idle"
  /\ gen < MaxResponses
  /\ isLoading' = TRUE
  /\ chunkIdRef' = 0
  /\ audioQueue' = <<>>
  /\ isProcessingQueueRef' = FALSE
  /\ hsm' = [IdleHandler EXCEPT !.pc = "fetching"]
  /\ gen' = gen + 1
  /\ enqueuedTexts' = <<>>
  /\ UNCHANGED <<inflight, timers, playing, played, streamed,
                 synthLog, lastCallback>>

\* fetch rejects, response not ok, or no reader: catch, then finally
ChatRequestFails ==
  /\ hsm.pc = "fetching"
  /\ hsm' = IdleHandler
  /\ isLoading' = FALSE
  /\ UNCHANGED <<audioQueue, chunkIdRef, isProcessingQueueRef, inflight,
                 timers, playing, played, gen, streamed, enqueuedTexts,
                 synthLog, lastCallback>>

ChatResponseArrives ==
  /\ hsm.pc = "fetching"
  /\ hsm' = [hsm EXCEPT !.pc = "reading"]
  /\ UNCHANGED <<audioQueue, chunkIdRef, isProcessingQueueRef, isLoading,
                 inflight, timers, playing, played, gen, streamed, enqueuedTexts,
                 synthLog, lastCallback>>

\* one turn of the read loop with done = false
StreamRead(chunk) ==
  /\ hsm.pc = "reading"
  /\ streamed + Len(chunk) <= MaxStreamLen
  /\ LET splitResult == splitByPunctuation(hsm.remainingText \o chunk)
         r == EnqueueCompleted(AddState, hsm.processedSentences,
                               splitResult.completed) IN
     /\ audioQueue' = r.a.queue
     /\ chunkIdRef' = r.a.chunkId
     /\ inflight' = r.a.inflight
     /\ hsm' = [hsm EXCEPT !.remainingText = splitResult.remaining,
                           !.processedSentences = r.processed]
     /\ enqueuedTexts' = enqueuedTexts \o Appended(audioQueue, r.a.queue)
  /\ streamed' = streamed + Len(chunk)
  /\ UNCHANGED <<isProcessingQueueRef, isLoading, timers, playing, played,
                 gen,
                 synthLog, lastCallback>>

\* the final flush is made for a trimmed remainder longer than this test
FlushesRemainder(finalText) == Len(finalText) > 0 /\ Len(finalText) > FlushMinLength

\* read loop ends with done = true: final flush, then finally
StreamDone ==
  /\ hsm.pc = "reading"
  /\ LET finalText == Trim(hsm.remainingText)
         flush == /\ FlushesRemainder(finalText)
                  /\ ~\E i \in 1..Len(hsm.processedSentences) :
                        hsm.processedSentences[i] = finalText
         a == IF flush THEN addToAudioQueue(AddState, finalText) ELSE AddState
     IN /\ audioQueue' = a.queue
        /\ chunkIdRef' = a.chunkId
        /\ inflight' = a.inflight
        /\ enqueuedTexts' = enqueuedTexts \o Appended(audioQueue, a.queue)
  /\ hsm' = IdleHandler
  /\ isLoading' = FALSE
  /\ UNCHANGED <<isProcessingQueueRef, timers, playing, played, gen, streamed,
                 synthLog, lastCallback>>

\* reader.read() rejects: catch, then finally; nothing is flushed
StreamFails ==
  /\ hsm.pc = "reading"
  /\ hsm' = IdleHandler
  /\ isLoading' = FALSE
  /\ UNCHANGED <<audioQueue, chunkIdRef, isProcessingQueueRef, inflight,
                 timers, playing, played, gen, streamed, enqueuedTexts,
                 synthLog, lastCallback>>

\* write back what processAudioQueue returned
SetQueueState(s) ==
  /\ audioQueue' = s.queue
  /\ isProcessingQueueRef' = s.processing
  /\ timers' = s.timers
  /\ playing' = s.playing
  /\ played' = s.played

\* audioQueueRef.current.find(item => item.id === chunkId): 0 when none
FindById(queue, chunkId) ==
  IF \E i \in 1..Len(queue) : queue[i].id = chunkId
  THEN CHOOSE i \in 1..Len(queue) :
         /\ queue[i].id = chunkId
         /\ \A j \in 1..(i - 1) : queue[j].id # chunkId
  ELSE 0

\* the request of chunk r answers ok with an audioUrl
SynthesisSucceeds(r) ==
  /\ r \in inflight
  /\ inflight' = inflight \ {r}
  /\ synthLog' = Append(synthLog, <<r.gen, r.id, "audio">>)
  /\ LET k == FindById(audioQueue, r.id)
         q == IF k = 0 THEN audioQueue
              ELSE [audioQueue EXCEPT ![k].audioUrl = AudioOf(r.text),
                                      ![k].writes = @ + 1]
         s == [QueueState EXCEPT !.queue = q] IN
     IF r.id = 0
     THEN SetQueueState([s EXCEPT !.timers = @ + 1])
     ELSE SetQueueState(processAudioQueue(s))
  /\ UNCHANGED <<chunkIdRef, isLoading, hsm, gen, streamed, enqueuedTexts,
                 lastCallback>>

\* the request answers ok but data.audioUrl is missing: nothing is done
SynthesisReturnsNoAudio(r) ==
  /\ r \in inflight
  /\ inflight' = inflight \ {r}
  /\ synthLog' = Append(synthLog, <<r.gen, r.id, "empty">>)
  /\ UNCHANGED <<audioQueue, chunkIdRef, isProcessingQueueRef, isLoading, hsm,
                 timers, playing, played, gen, streamed, enqueuedTexts,
                 lastCallback>>

\* fetch rejects, response not ok or json() rejects: the catch block
SynthesisFails(r) ==
  /\ r \in inflight
  /\ inflight' = inflight \ {r}
  /\ synthLog' = Append(synthLog, <<r.gen, r.id, "failed">>)
  /\ audioQueue' = SelectSeq(audioQueue, LAMBDA item : item.id # r.id)
  /\ UNCHANGED <<chunkIdRef, isProcessingQueueRef, isLoading, hsm, timers,
                 playing, played, gen, streamed, enqueuedTexts,
                 lastCallback>>

\* a pending setTimeout(() => processAudioQueue(), ..) fires
TimerFires ==
  /\ timers > 0
  /\ SetQueueState(processAudioQueue([QueueState EXCEPT !.timers = @ - 1]))
  /\ UNCHANGED <<chunkIdRef, isLoading, hsm, inflight, gen, streamed, enqueuedTexts,
                 synthLog, lastCallback>>

\* what the onFinish callback does to the queue state
OnFinish(s, p) ==
  [s EXCEPT !.playing = @ \ {p},
            !.processing = FALSE,
            !.timers = IF Len(s.queue) > 0 THEN @ + 1 ELSE @]

OnErrorKeepsFlag(s, p) ==
  [s EXCEPT !.playing = @ \ {p}]

\* what the onError callback does to the queue state
OnError(s, p) ==
  [s EXCEPT !.playing = @ \ {p},
            !.processing = FALSE,
            !.timers = IF Len(s.queue) > 0 THEN @ + 1 ELSE @]

SpeakFinishes(p) ==
  /\ p \in playing
  /\ SetQueueState(OnFinish(QueueState, p))
  /\ lastCallback' = "onFinish"
  /\ UNCHANGED <<chunkIdRef, isLoading, hsm, inflight, gen, streamed, enqueuedTexts,
                 synthLog>>

SpeakErrors(p) ==
  /\ p \in playing
  /\ SetQueueState(OnError(QueueState, p))
  /\ lastCallback' = "onError"
  /\ UNCHANGED <<chunkIdRef, isLoading, hsm, inflight, gen, streamed, enqueuedTexts,
                 synthLog>>

(***************************************************************************)
(* splitByPunctuation executed one loop iteration at a time                *)
(***************************************************************************)
SplitChars == {"a", " ", ".", "?"}
ExampleText ==
  <<"H", "e", "l", "l", "o", ".", " ", "H", "o", "w", " ", "a", "r", "e",
    " ", "y", "o", "u", "?", " ", "F", "i", "n", "e">>
SplitInputs == SeqsBetween(SplitChars, 0, MaxSplitLen) \cup {ExampleText}

SplitIdle ==
  /\ spInput = <<>>
  /\ spCompleted = <<>>
  /\ spCurrent = <<>>
  /\ spPc = "done"

\* entry of splitByPunctuation(text)
SplitInit ==
  /\ spInput \in SplitInputs
  /\ spCompleted = <<>>
  /\ spCurrent = spInput
  /\ spPc = "loop"

\* a turn of the while loop in which a punctuation mark is found
SplitFound ==
  /\ spPc = "loop"
  /\ Len(spCurrent) > 0
  /\ LET it == SplitIteration(spCompleted, spCurrent) IN
     /\ it.found
     /\ spCompleted' = it.completed
     /\ spCurrent' = it.currentText
  /\ UNCHANGED <<spInput, spPc>>

\* the loop ends: currentText is empty, or the break
SplitReturn ==
  /\ spPc = "loop"
  /\ \/ Len(spCurrent) = 0
     \/ ~SplitIteration(spCompleted, spCurrent).found
  /\ spPc' = "done"
  /\ UNCHANGED <<spInput, spCompleted, spCurrent>>

(***************************************************************************)
(* Audio-based lip-sync monitor (setupAudioBasedLipsync)                   *)
(***************************************************************************)
Unit == 1000                \* fixed point: 1.0
SilenceThreshold == 10      \* silenceThreshold = 0.01
RmsClamp == 10000           \* Math.min(10, rms)
AnalyzeCeiling == 800       \* max_ = 0.8
AnalyzeWeight == 600        \* weight = 0.6
AnalyzeFloor == 200         \* min_ = 0.2

AnalysisError == 0 - 1      \* the try block throws
RmsLevels == {0, 5, 10, 100, 500, 2000, RmsClamp}   \* clampedRms of a frame
FrameInputs == RmsLevels \cup {AnalysisError}

Max2(a, b) == IF a >= b THEN a ELSE b
Min2(a, b) == IF a <= b THEN a ELSE b

\* a frame that writes the weighted loudness without clamping it
AnalyzeValueUnclamped(clampedRms) == (clampedRms * AnalyzeWeight) \div Unit

\* the value analyzeAudio writes for a frame that is not silent
AnalyzeValue(clampedRms) ==
  LET min_ == IF clampedRms > 0 THEN AnalyzeFloor ELSE 0 IN
  Max2(min_, Min2(AnalyzeCeiling, (clampedRms * AnalyzeWeight) \div Unit))

\* a frame that applies the floor to every loudness
FrameValueFloored(clampedRms) == Max2(AnalyzeFloor, AnalyzeValue(clampedRms))

\* the value analyzeAudio writes for a frame it analyses
FrameValue(clampedRms) ==
  IF clampedRms < SilenceThreshold THEN 0 ELSE AnalyzeValue(clampedRms)

LipInit ==
  /\ isMonitoring = FALSE
  /\ animationId = "null"
  /\ orphanFrames = 0
  /\ audioCapture = "null"
  /\ startsAwaiting = 0
  /\ recheckIntervals = 0
  /\ playListener = FALSE
  /\ attempts = <<>>
  /\ mouth = 0
  /\ fallbackTimers = 0
  /\ fallbackLoops = <<>>
  /\ disposed = FALSE
  /\ triggered = 0

PendingWork == startsAwaiting + orphanFrames + recheckIntervals

\* animationId = requestAnimationFrame(analyzeAudio), from handle id
\* r = [id, orphans]
RequestFrame(r) ==
  [id |-> "live",
   orphans |-> IF r.id = "live" THEN r.orphans + 1 ELSE r.orphans]

\* outcomes of setupWebRTCAudioMonitoring: a receiver track is tapped, only
\* a track listener is installed on a connection, or no connection is found
WebRTCOutcomes == {"connection", "listener", "null"}
HasConnection(capture) == capture \in {"connection", "listener"}

Tried(name, source) == [strategy |-> name, yielded |-> source]

\* the strategies of startMonitoring after the WebRTC one found nothing:
\* each is tried only while audioCapture is still null
LaterStrategiesAll(capture, page, hijack) ==
  <<Tried("capture", capture), Tried("page", page)>>
LaterStrategies(capture, page, hijack) ==
  LET second == <<Tried("capture", capture)>>
      third == IF capture = "null" THEN Append(second, Tried("page", page))
               ELSE second
  IN IF third[Len(third)].yielded = "null"
     THEN Append(third, Tried("hijack", hijack))
     ELSE third

\* startMonitoring from its entry; with a WebRTC source it runs to its end,
\* otherwise it is suspended at await setupAudioCapture()
StartMonitoring(webrtc) ==
  /\ ~isMonitoring
  /\ PendingWork < MaxPending
  /\ isMonitoring' = TRUE
  /\ IF webrtc # "null"
     THEN LET f == RequestFrame([id |-> animationId, orphans |-> orphanFrames])
          IN /\ audioCapture' = webrtc
             /\ animationId' = f.id
             /\ orphanFrames' = f.orphans
             /\ recheckIntervals' = recheckIntervals + 1
             /\ UNCHANGED startsAwaiting
     ELSE /\ audioCapture' = "null"
          /\ startsAwaiting' = startsAwaiting + 1
          /\ UNCHANGED <<animationId, orphanFrames, recheckIntervals>>
  /\ attempts' = IF webrtc # "null" THEN <<Tried("webrtc", webrtc)>>
                 ELSE attempts
  /\ UNCHANGED <<playListener, mouth>>

\* setupAudioCapture settles with a captured stream or with null; then the
\* page audio strategy (an element, or else the observer), the frame request
\* and the recheck interval
CaptureSettles(capture, page) ==
  /\ startsAwaiting > 0
  /\ startsAwaiting' = startsAwaiting - 1
  /\ LET tried == LaterStrategies(capture, page, "contexts")
     IN /\ audioCapture' = tried[Len(tried)].yielded
        /\ attempts' = <<Tried("webrtc", "null")>> \o tried
  /\ LET f == RequestFrame([id |-> animationId, orphans |-> orphanFrames])
     IN /\ animationId' = f.id
        /\ orphanFrames' = f.orphans
  /\ recheckIntervals' = recheckIntervals + 1
  /\ UNCHANGED <<isMonitoring, playListener, mouth>>

\* the final "if (animationId !== null) animationId = requestAnimationFrame"
Reschedule(r) == IF r.id # "null" THEN RequestFrame(r) ELSE r

\* the silent branch: the mouth is closed and analyzeAudio returns
SilentFrame(r) == r

\* one execution of analyzeAudio: the frame animationId names ("live") or
\* one it no longer names ("orphan"); input is the frame's clampedRms or
\* AnalysisError
AnalyzeAudio(which, input) ==
  /\ which = "live" => animationId = "live"
  /\ which = "orphan" => orphanFrames > 0
  /\ LET fired == IF which = "live"
                  THEN [id |-> "stale", orphans |-> orphanFrames]
                  ELSE [id |-> animationId, orphans |-> orphanFrames - 1]
         after == IF ~isMonitoring THEN Reschedule(fired)
                  ELSE IF input = AnalysisError THEN Reschedule(fired)
                  ELSE IF input < SilenceThreshold THEN SilentFrame(fired)
                  ELSE Reschedule(fired)
     IN /\ animationId' = after.id
        /\ orphanFrames' = after.orphans
        /\ mouth' = IF ~isMonitoring \/ input = AnalysisError THEN mouth
                    ELSE FrameValue(input)
  /\ UNCHANGED <<isMonitoring, audioCapture, startsAwaiting, recheckIntervals,
                 playListener, attempts>>

\* stopMonitoring (also the first step of dispose)
StopMonitoring ==
  /\ isMonitoring' = FALSE
  /\ animationId' = "null"
  /\ audioCapture' = "null"
  /\ mouth' = 0
  /\ UNCHANGED <<orphanFrames, startsAwaiting, recheckIntervals, playListener, attempts>>

\* the "track" listener of a WebRTC connection receives an audio track
OnTrack ==
  /\ audioCapture = "listener"
  /\ isMonitoring' = TRUE
  /\ animationId' = IF animationId = "null" THEN "live" ELSE animationId
  /\ UNCHANGED <<orphanFrames, audioCapture, startsAwaiting, recheckIntervals,
                 playListener, attempts, mouth>>

\* the MutationObserver sees a new audio element, connects it and installs
\* its onPlay listener (never removed)
ObserverConnects ==
  /\ audioCapture = "observer"
  /\ playListener' = TRUE
  /\ UNCHANGED <<isMonitoring, animationId, orphanFrames, audioCapture,
                 startsAwaiting, recheckIntervals, attempts, mouth>>

\* onPlay of a dynamically connected audio element
OnPlay ==
  /\ playListener
  /\ isMonitoring' = TRUE
  /\ animationId' = IF animationId = "null" THEN "live" ELSE animationId
  /\ UNCHANGED <<orphanFrames, audioCapture, startsAwaiting, recheckIntervals,
                 playListener, attempts, mouth>>

\* the 5 second recheck interval fires
RecheckFires(webrtc) ==
  /\ recheckIntervals > 0
  /\ IF ~HasConnection(audioCapture) /\ audioCapture # "element"
     THEN IF webrtc # "null"
          THEN /\ audioCapture' = webrtc
               /\ recheckIntervals' = recheckIntervals - 1
          ELSE UNCHANGED <<audioCapture, recheckIntervals>>
     ELSE /\ recheckIntervals' = recheckIntervals - 1
          /\ UNCHANGED audioCapture
  /\ UNCHANGED <<isMonitoring, animationId, orphanFrames, startsAwaiting,
                 playListener, attempts, mouth>>

\* the 30 second timeout clears a recheck interval that is still active
RecheckExpires ==
  /\ recheckIntervals > 0
  /\ recheckIntervals' = recheckIntervals - 1
  /\ UNCHANGED <<isMonitoring, animationId, orphanFrames, audioCapture,
                 startsAwaiting, playListener, attempts, mouth>>

\* resume(): audioCtx.resume() and then startMonitoring
Resume(webrtc) ==
  /\ StartMonitoring(webrtc)
  /\ disposed' = FALSE
  /\ UNCHANGED <<fallbackTimers, fallbackLoops, triggered>>

\* dispose(): stopMonitoring, then the analysis context is closed
Dispose ==
  /\ StopMonitoring
  /\ disposed' = TRUE
  /\ UNCHANGED <<fallbackTimers, fallbackLoops, triggered>>

\* triggerSpeaking(): startMonitoring (which returns at once while
\* monitoring) and the 5 second fallback timer
TriggerSpeaking(webrtc) ==
  /\ triggered < MaxTriggers
  /\ triggered' = triggered + 1
  /\ \/ StartMonitoring(webrtc)
     \/ /\ isMonitoring \/ PendingWork >= MaxPending
        /\ UNCHANGED <<isMonitoring, animationId, orphanFrames, audioCapture,
                       startsAwaiting, recheckIntervals, playListener, attempts, mouth>>
  /\ fallbackTimers' = fallbackTimers + 1
  /\ disposed' = FALSE
  /\ UNCHANGED fallbackLoops

FallbackDelay == 5000       \* setTimeout(.., 5000)
FallbackDuration == 3000    \* duration = 3000
\* Date.now() - startTime at the frames of a fallback loop
FallbackFrameTimes == {500, 1000, 1500, FallbackDuration}

\* Math.sin, in thousandths, at the angles (radians) the frame times give
Sin(radians) ==
  CASE radians = 0 -> 0
    [] radians = 5 -> 0 - 959
    [] radians = 10 -> 0 - 544
    [] radians = 15 -> 650
    [] radians = 30 -> 0 - 988
    [] radians = 45 -> 851

FallbackValueFlat(elapsed) == 200
\* mouthValue of animateFromText
FallbackValue(elapsed) ==
  LET intensity == (Sin(elapsed \div 100) * 300) \div Unit + 200
      variation == (Sin((elapsed * 3) \div 100) * 200) \div Unit
  IN Max2(0, Min2(Unit, intensity + variation))

\* a source the fallback timer accepts: connection, element or stream
HasRealSource(capture) ==
  HasConnection(capture) \/ capture = "element" \/ capture = "stream"

\* the 5 second timer of triggerSpeaking fires; without a source it calls
\* animateFromText once (elapsed 0), which requests its next frame
FallbackTimerFires ==
  /\ fallbackTimers > 0
  /\ fallbackTimers' = fallbackTimers - 1
  /\ IF ~HasRealSource(audioCapture)
     THEN /\ mouth' = FallbackValue(0)
          /\ fallbackLoops' = Append(fallbackLoops, 0)
     ELSE UNCHANGED <<mouth, fallbackLoops>>
  /\ UNCHANGED <<isMonitoring, animationId, orphanFrames, audioCapture,
                 startsAwaiting, recheckIntervals, playListener, attempts, disposed,
                 triggered>>

\* a frame of the i-th fallback loop, elapsed ms after its start
AnimateFromText(i, elapsed) ==
  /\ i \in 1..Len(fallbackLoops)
  /\ elapsed > fallbackLoops[i]
  /\ IF elapsed < FallbackDuration
     THEN /\ mouth' = FallbackValue(elapsed)
          /\ fallbackLoops' = [fallbackLoops EXCEPT ![i] = elapsed]
     ELSE /\ mouth' = 0
          /\ fallbackLoops' = RemoveAt(fallbackLoops, i)
  /\ UNCHANGED <<isMonitoring, animationId, orphanFrames, audioCapture,
                 startsAwaiting, recheckIntervals, playListener, attempts,
                 fallbackTimers, disposed, triggered>>

LipNext ==
  \/ \E webrtc \in WebRTCOutcomes :
       Resume(webrtc) /\ UNCHANGED offLip
  \/ \E capture \in {"stream", "null"} : \E page \in {"element", "observer"} :
       CaptureSettles(capture, page) /\ UNCHANGED <<offLip, fallbackVars>>
  \/ \E which \in {"live", "orphan"} : \E input \in FrameInputs :
       AnalyzeAudio(which, input) /\ UNCHANGED <<offLip, fallbackVars>>
  \/ Dispose /\ UNCHANGED offLip
  \/ OnTrack /\ UNCHANGED <<offLip, fallbackVars>>
  \/ ObserverConnects /\ UNCHANGED <<offLip, fallbackVars>>
  \/ OnPlay /\ UNCHANGED <<offLip, fallbackVars>>
  \/ \E webrtc \in WebRTCOutcomes :
       RecheckFires(webrtc) /\ UNCHANGED <<offLip, fallbackVars>>
  \/ RecheckExpires /\ UNCHANGED <<offLip, fallbackVars>>
  \/ \E webrtc \in WebRTCOutcomes :
       TriggerSpeaking(webrtc) /\ UNCHANGED offLip
  \/ FallbackTimerFires /\ UNCHANGED offLip
  \/ \E i \in 1..MaxTriggers : \E elapsed \in FallbackFrameTimes :
       AnimateFromText(i, elapsed) /\ UNCHANGED offLip

(***************************************************************************)
(* Text-based lip-sync (setupTextBasedLipsync)                             *)
(***************************************************************************)
TextFloor == 400           \* min_ = 0.4
TextWeight == 1200         \* weight = 1.2
TextDecay == 900           \* newValue = currentValue * 0.9
TextClosedBelow == 50      \* newValue > 0.05

\* results of simulateAudioAnalysis (one decimal place), in thousandths
RawLevels == {0, 100, 500, 1300}

\* value of animateMouth while speaking
TextValue(rawValue) ==
  LET min_ == IF rawValue > 0 THEN TextFloor ELSE 0 IN
  Max2(min_, Min2(Unit, (rawValue * TextWeight) \div Unit))

\* the state setupTextBasedLipsync returns with: the first frame requested
TextInit ==
  /\ textAnimationId = "live"
  /\ isSpeaking = FALSE
  /\ textClosing = FALSE
  /\ textTimers = 0
  /\ textMouth = 0

\* onTextResponse (registered until dispose), and triggerSpeaking without
\* delay
OnTextResponse ==
  /\ strategy = "textBased"
  /\ textAnimationId = "live"
  /\ isSpeaking' = TRUE
  /\ textClosing' = FALSE
  /\ UNCHANGED <<textAnimationId, textTimers, textMouth>>

\* triggerSpeaking(delay) with delay > 0
TextTriggerDelayed ==
  /\ strategy = "textBased"
  /\ textTimers < MaxTriggers
  /\ textTimers' = textTimers + 1
  /\ UNCHANGED <<textAnimationId, isSpeaking, textClosing, textMouth>>

\* the delayed trigger's timer fires
TextTimerFires ==
  /\ textTimers > 0
  /\ textTimers' = textTimers - 1
  /\ isSpeaking' = TRUE
  /\ textClosing' = FALSE
  /\ UNCHANGED <<textAnimationId, textMouth>>

\* duration (4 seconds) has passed since speakingStartTime
TextDurationPasses ==
  /\ isSpeaking /\ ~textClosing
  /\ textClosing' = TRUE
  /\ UNCHANGED <<textAnimationId, isSpeaking, textTimers, textMouth>>

\* one frame of animateMouth
AnimateMouth(rawValue) ==
  /\ strategy = "textBased"
  /\ textAnimationId = "live"
  /\ IF isSpeaking /\ ~textClosing
     THEN /\ textMouth' = TextValue(rawValue)
          /\ UNCHANGED <<isSpeaking, textClosing>>
     ELSE IF isSpeaking
     THEN LET newValue == (textMouth * TextDecay) \div Unit IN
          /\ textMouth' = newValue
          /\ isSpeaking' = (newValue > TextClosedBelow)
          /\ UNCHANGED textClosing
     ELSE UNCHANGED <<textMouth, isSpeaking, textClosing>>
  /\ UNCHANGED <<textAnimationId, textTimers>>

\* dispose of the text-based session
TextDispose ==
  /\ strategy = "textBased"
  /\ textAnimationId' = "null"
  /\ isSpeaking' = FALSE
  /\ UNCHANGED <<textClosing, textTimers, textMouth>>

TextNext ==
  \/ OnTextResponse /\ UNCHANGED <<strategy, eventVars, realAudioVars, offStrategy>>
  \/ TextTriggerDelayed /\ UNCHANGED <<strategy, eventVars, realAudioVars, offStrategy>>
  \/ TextTimerFires /\ UNCHANGED <<strategy, eventVars, realAudioVars, offStrategy>>
  \/ TextDurationPasses /\ UNCHANGED <<strategy, eventVars, realAudioVars, offStrategy>>
  \/ \E rawValue \in RawLevels :
       AnimateMouth(rawValue) /\ UNCHANGED <<strategy, eventVars, realAudioVars, offStrategy>>
  \/ TextDispose /\ UNCHANGED <<strategy, eventVars, realAudioVars, offStrategy>>

(***************************************************************************)
(* Event-based lip-sync (setupRealtimeEventLipsync)                        *)
(***************************************************************************)
\* 0.2 + Math.random() * 0.3, in thousandths
VolumeLevels == {200, 350, 499}
EventArgs == {"buffer", "text", "other"}

\* targetMouth of analyzeAndUpdate
TargetMouth(volume) == Max2(0, Min2(Unit, volume * 2))

\* the state setupRealtimeEventLipsync returns with
EventInit ==
  /\ eventAnimationId = "live"
  /\ currentVolume = 0
  /\ volumeTimers = 0
  /\ eventListening = TRUE
  /\ eventMouth = 0

\* mean absolute sample of the 16-bit PCM a buffer argument carries
BufferMeans == {0, 3000, 12000}

\* Math.min(1, sum / audioArray.length / 10000)
BufferVolume(mean) == Min2(Unit, (mean * Unit) \div 10000)

\* currentVolume when the forEach over the arguments is done: the return
\* statements in its callback end the callback, not onAudioEvent (the
\* random volume a text argument sets is overwritten like the others)
VolumeAfterArgs(arg, mean) ==
  IF arg = "buffer" THEN BufferVolume(mean) ELSE currentVolume

\* onAudioEvent: whatever the arguments set, the statements after the
\* forEach set the volume and a 1 second reset timer; a text argument has
\* set a 2 second reset timer before
OnAudioEvent(arg, mean, volume) ==
  /\ strategy = "eventBased"
  /\ eventListening
  /\ volumeTimers < MaxTriggers
  /\ currentVolume' = LET afterArgs == VolumeAfterArgs(arg, mean) IN volume
  /\ volumeTimers' = volumeTimers + (IF arg = "text" THEN 2 ELSE 1)
  /\ UNCHANGED <<eventAnimationId, eventListening, eventMouth>>

\* setTimeout(() => { currentVolume = 0 })
VolumeTimerFires ==
  /\ volumeTimers > 0
  /\ volumeTimers' = volumeTimers - 1
  /\ currentVolume' = 0
  /\ UNCHANGED <<eventAnimationId, eventListening, eventMouth>>

\* one frame of analyzeAndUpdate
AnalyzeAndUpdate ==
  /\ strategy = "eventBased"
  /\ eventAnimationId = "live"
  /\ eventMouth' = TargetMouth(currentVolume)
  /\ UNCHANGED <<eventAnimationId, currentVolume, volumeTimers, eventListening>>

\* dispose of the event-based session
EventDispose ==
  /\ strategy = "eventBased"
  /\ eventAnimationId' = "null"
  /\ eventListening' = FALSE
  /\ UNCHANGED <<currentVolume, volumeTimers, eventMouth>>

EventNext ==
  \/ \E arg \in EventArgs : \E mean \in BufferMeans :
       \E volume \in VolumeLevels :
         OnAudioEvent(arg, mean, volume)
           /\ UNCHANGED <<strategy, textVars, realAudioVars, offStrategy>>
  \/ VolumeTimerFires /\ UNCHANGED <<strategy, textVars, realAudioVars, offStrategy>>
  \/ AnalyzeAndUpdate /\ UNCHANGED <<strategy, textVars, realAudioVars, offStrategy>>
  \/ EventDispose /\ UNCHANGED <<strategy, textVars, realAudioVars, offStrategy>>

\* the audio-based session: what makes the mouth move, and dispose
AudioBasedNext ==
  \/ \E webrtc \in WebRTCOutcomes :
       strategy = "audioBased" /\ TriggerSpeaking(webrtc) /\ UNCHANGED offLip
  \/ \E capture \in {"stream", "null"} : \E page \in {"element", "observer"} :
       CaptureSettles(capture, page) /\ UNCHANGED <<offLip, fallbackVars>>
  \/ \E input \in FrameInputs :
       AnalyzeAudio("live", input) /\ UNCHANGED <<offLip, fallbackVars>>
  \/ strategy = "audioBased" /\ Dispose /\ UNCHANGED offLip

(***************************************************************************)
(* Deferred real-audio lip-sync (setupRealAudioLipsync without a receiver) *)
(***************************************************************************)
\* the state setupRealAudioLipsync returns with when the peer connection
\* has no audio receiver yet
NoBinding == 0    \* disposeFunc = null

RealAudioInit ==
  /\ trackListener = TRUE
  /\ disposeFunc = NoBinding
  /\ bindings = {}
  /\ tracksSeen = 0

\* onTrack: an audio track is wired with wireLipsyncFromMediaStream and its
\* dispose is kept in disposeFunc; other tracks are ignored
RealAudioOnTrack(kind) ==
  /\ strategy = "realAudioDeferred"
  /\ trackListener
  /\ tracksSeen < MaxTracks
  /\ IF kind = "audio"
     THEN /\ tracksSeen' = tracksSeen + 1
          /\ bindings' = bindings \cup {tracksSeen'}
          /\ disposeFunc' = tracksSeen'
     ELSE UNCHANGED <<tracksSeen, bindings, disposeFunc>>
  /\ UNCHANGED trackListener

\* dispose of the deferred session
RealAudioDispose ==
  /\ strategy = "realAudioDeferred"
  /\ trackListener' = FALSE
  /\ bindings' = IF disposeFunc = NoBinding THEN bindings
                 ELSE bindings \ {disposeFunc}
  /\ UNCHANGED <<disposeFunc, tracksSeen>>

RealAudioNext ==
  \/ \E kind \in {"audio", "video"} :
       RealAudioOnTrack(kind) /\ UNCHANGED <<strategy, textVars, eventVars, offStrategy>>
  \/ RealAudioDispose /\ UNCHANGED <<strategy, textVars, eventVars, offStrategy>>

Strategies == {"audioBased", "textBased", "eventBased", "realAudioDeferred"}

StrategyIdle == strategy = "audioBased" /\ TextInit /\ EventInit /\ RealAudioInit

(***************************************************************************)
(* Gemini Live chat: streamed playback, interruption, end of turn          *)
(***************************************************************************)
\* the state after connect(): client connected, player created and resumed
GeminiInit ==
  /\ responseQueue = <<>>
  /\ awaitingResume = <<>>
  /\ scheduledSources = <<>>
  /\ hasStreamedThisTurn = FALSE
  /\ sendPc = "idle"
  /\ turns = <<>>
  /\ received = 0
  /\ interruptions = 0
  /\ streamedOut = {}
  /\ spoken = {}
  /\ interruptPending = FALSE
  /\ geminiMouth = 0

MessageKinds == {"audio", "turnComplete", "interrupted"}

\* StreamingAudioPlayer.flushAndStop
flushAndStop(sources) == <<>>

\* GeminiLiveClient onmessage, with the callbacks GeminiLiveChat gave it:
\* an audio message starts onAudioChunk, which suspends at await resume();
\* serverContent goes to onServerContent
OnMessage(kind) ==
  /\ received < MaxMessages
  /\ received' = received + 1
  /\ responseQueue' = Append(responseQueue, [kind |-> kind, id |-> received'])
  /\ awaitingResume' =
       IF kind = "audio"
       THEN Append(awaitingResume, [id |-> received', epoch |-> interruptions])
       ELSE awaitingResume
  /\ scheduledSources' =
       IF kind = "interrupted" THEN flushAndStop(scheduledSources)
       ELSE scheduledSources
  /\ interruptions' =
       IF kind = "interrupted" THEN interruptions + 1 ELSE interruptions
  /\ interruptPending' = (interruptPending \/ kind = "interrupted")
  /\ hasStreamedThisTurn' =
       IF kind = "turnComplete" THEN FALSE ELSE hasStreamedThisTurn
  /\ UNCHANGED <<sendPc, turns, streamedOut, spoken, geminiMouth>>

\* onAudioChunk after its await: enqueue the chunk and set the flag
Enqueue(chunk) == Append(scheduledSources, chunk)

ResumeSettles ==
  /\ awaitingResume # <<>>
  /\ scheduledSources' = Enqueue(Head(awaitingResume))
  /\ awaitingResume' = Tail(awaitingResume)
  /\ hasStreamedThisTurn' = TRUE
  /\ UNCHANGED <<responseQueue, sendPc, turns, received, interruptions,
                 streamedOut, spoken, interruptPending, geminiMouth>>

\* the first scheduled source sounds to its end (src.onended)
SourceEnded ==
  /\ scheduledSources # <<>>
  /\ streamedOut' = streamedOut \cup {Head(scheduledSources).id}
  /\ scheduledSources' = Tail(scheduledSources)
  /\ UNCHANGED <<responseQueue, awaitingResume, hasStreamedThisTurn, sendPc,
                 turns, received, interruptions, spoken, interruptPending,
                 geminiMouth>>

\* sendTextMessage (clears the flag) or stopVoiceRecording, up to the
\* await of waitForTurn; sendText/sendAudio empty the response queue
SendMessage(how) ==
  /\ sendPc = "idle"
  /\ received < MaxMessages
  /\ sendPc' = "waiting"
  /\ responseQueue' = <<>>
  /\ turns' = <<>>
  /\ hasStreamedThisTurn' = IF how = "text" THEN FALSE ELSE hasStreamedThisTurn
  /\ UNCHANGED <<awaitingResume, scheduledSources, received, interruptions,
                 streamedOut, spoken, interruptPending, geminiMouth>>

\* ids of the audio chunks of a turn (combineAudioData)
combineAudioData(ts) ==
  {ts[i].id : i \in {j \in 1..Len(ts) : ts[j].kind = "audio"}}

\* what live2dModel.speak plays at the end of a turn
SpeakAtTurnEnd(audioData, hasStreamed) ==
  IF audioData # {} /\ ~hasStreamed THEN audioData ELSE {}

\* waitForTurn takes the next message; the one that ends the turn returns
\* the turns to the sender, which may play the combined audio
WaitMessage ==
  /\ sendPc = "waiting"
  /\ responseQueue # <<>>
  /\ responseQueue' = Tail(responseQueue)
  /\ LET message == Head(responseQueue)
         collected == Append(turns, message)
     IN IF message.kind \in {"turnComplete", "interrupted"}
        THEN /\ sendPc' = "idle"
             /\ turns' = <<>>
             /\ spoken' = spoken \cup
                  SpeakAtTurnEnd(combineAudioData(collected), hasStreamedThisTurn)
        ELSE /\ turns' = collected
             /\ UNCHANGED <<sendPc, spoken>>
  /\ UNCHANGED <<awaitingResume, scheduledSources, hasStreamedThisTurn,
                 received, interruptions, streamedOut, interruptPending,
                 geminiMouth>>

MouthOpen == 500
\* a frame of the model's mouthSync on the analyser wired to the player's
\* stream: open only while a scheduled source can sound
MouthSync(open) ==
  /\ geminiMouth' = IF scheduledSources # <<>> /\ open THEN MouthOpen ELSE 0
  /\ interruptPending' = FALSE
  /\ UNCHANGED <<responseQueue, awaitingResume, scheduledSources,
                 hasStreamedThisTurn, sendPc, turns, received, interruptions,
                 streamedOut, spoken>>

GeminiNext ==
  \/ \E kind \in MessageKinds : OnMessage(kind) /\ UNCHANGED offGemini
  \/ ResumeSettles /\ UNCHANGED offGemini
  \/ SourceEnded /\ UNCHANGED offGemini
  \/ \E how \in {"text", "voice"} : SendMessage(how) /\ UNCHANGED offGemini
  \/ WaitMessage /\ UNCHANGED offGemini
  \/ \E open \in BOOLEAN : MouthSync(open) /\ UNCHANGED offGemini

(***************************************************************************)
(* StreamingAudioPlayer: scheduling of the chunks (times in milliseconds)  *)
(***************************************************************************)
SampleRate == 24000        \* constructor(sampleRate: number = 24000)
MinLead == 50              \* minLead = 0.05

\* lengths of the Int16Array chunks: empty, 20 ms, 100 ms
ChunkLengths == {0, 480, 2400}
\* how far currentTime advances between two calls
TimeSteps == {30, 100}

\* buffer.duration of a buffer of length samples
BufferDuration(length) == (length * 1000) \div SampleRate

PlayerInit ==
  /\ audioContext = FALSE
  /\ now = 0
  /\ playbackTime = 0
  /\ sourcesLog = <<>>
  /\ flushed = FALSE
  /\ playerDisposed = FALSE

\* ensureContext, as [ctx, now, playbackTime]: a new context starts its
\* clock at 0 and playbackTime at that clock
EnsureContext ==
  IF audioContext THEN [now |-> now, playbackTime |-> playbackTime]
  ELSE [now |-> 0, playbackTime |-> 0]

\* a start time that ignores what is already scheduled
StartAtLeadOnly(playbackTime_, now_) == now_ + MinLead

\* startAt = Math.max(this.playbackTime, now + minLead)
StartAt(playbackTime_, now_) == Max2(playbackTime_, now_ + MinLead)

\* currentTime of the running context advances
TimePasses(step) ==
  /\ audioContext
  /\ now + step <= MaxTime
  /\ now' = now + step
  /\ UNCHANGED <<audioContext, playbackTime, sourcesLog, flushed,
                 playerDisposed>>

\* resume(): ensureContext (the context is taken to be running)
PlayerResume ==
  /\ ~audioContext
  /\ audioContext' = TRUE
  /\ now' = EnsureContext.now
  /\ playbackTime' = EnsureContext.playbackTime
  /\ UNCHANGED <<sourcesLog, flushed, playerDisposed>>

\* enqueue(int16)
PlayerEnqueue(length) ==
  /\ Len(sourcesLog) < MaxChunks
  /\ IF length = 0
     THEN UNCHANGED playerVars
     ELSE LET ctx == EnsureContext
              startAt == StartAt(ctx.playbackTime, ctx.now)
              duration == BufferDuration(length)
          IN /\ audioContext' = TRUE
             /\ now' = ctx.now
             /\ playbackTime' = startAt + duration
             /\ sourcesLog' = Append(sourcesLog,
                                [at |-> ctx.now, startAt |-> startAt,
                                 endAt |-> startAt + duration])
             /\ UNCHANGED <<flushed, playerDisposed>>

\* a flush that leaves the playback cursor where it is
CursorKept(playbackTime_, now_) == playbackTime_

\* this.playbackTime = this.audioContext.currentTime
CursorAfterFlush(playbackTime_, now_) == now_

\* flushAndStop()
PlayerFlushAndStop ==
  /\ IF ~audioContext
     THEN UNCHANGED <<playbackTime, sourcesLog, flushed>>
     ELSE /\ sourcesLog' = <<>>
          /\ playbackTime' = CursorAfterFlush(playbackTime, now)
          /\ flushed' = TRUE
  /\ UNCHANGED <<audioContext, now, playerDisposed>>

\* dispose(): flushAndStop, then the context is closed and forgotten
PlayerDispose ==
  /\ sourcesLog' = <<>>
  /\ playbackTime' = IF audioContext
                     THEN CursorAfterFlush(playbackTime, now)
                     ELSE playbackTime
  /\ audioContext' = FALSE
  /\ flushed' = FALSE
  /\ playerDisposed' = TRUE
  /\ UNCHANGED now

PlayerNext ==
  \/ \E step \in TimeSteps : TimePasses(step) /\ UNCHANGED offPlayer
  \/ \E length \in ChunkLengths : PlayerEnqueue(length) /\ UNCHANGED offPlayer
  \/ PlayerResume /\ UNCHANGED offPlayer
  \/ PlayerFlushAndStop /\ UNCHANGED offPlayer
  \/ PlayerDispose /\ UNCHANGED offPlayer

(***************************************************************************)
(* GeminiLiveClient (src/lib/gemini-live.ts)                               *)
(***************************************************************************)
\* the outcome of a call that has settled
Outcome(result, turns_, mark, alone) ==
  [result |-> result, turns |-> turns_, mark |-> mark, alone |-> alone]

\* this.session = null
NoSession == 0

\* one session asked for by connect(): state is "connecting", "open",
\* "closing" (close() called, onclose not yet run) or "closed" (also the
\* state of a session that never opened)
Socket(state, pending) == [state |-> state, pending |-> pending]

\* a session whose WebSocket is open
AnyOpen == \E i \in 1..Len(sockets) : sockets[i].state = "open"

ClientInit ==
  /\ sockets = <<>>
  /\ isConnected = FALSE
  /\ session = NoSession
  /\ clientQueue = <<>>
  /\ waiting = <<>>
  /\ lastOutcome = Outcome("none", <<>>, 0, TRUE)
  /\ callsMade = 0
  /\ arrived = <<>>
  /\ sentPayloads = 0
  /\ callbackLog = <<>>

\* msg.data: absent or base64 PCM (data that atob rejects is caught and
\* calls nothing, as absent data does)
DataKinds == {"none", "pcm"}
\* msg.serverContent: absent or without flag, turnComplete, interrupted
ServerContentKinds == {"none", "turnComplete", "interrupted"}

Called(cb, id) == [cb |-> cb, id |-> id]

\* connect(), up to await this.ai.live.connect: only isConnected is looked
\* at; at most limit calls are explored
ConnectWithin(limit) ==
  /\ ~isConnected
  /\ Len(sockets) < limit
  /\ sockets' = Append(sockets, Socket("connecting", TRUE))
  /\ UNCHANGED <<isConnected, session, clientQueue, waiting, lastOutcome,
                 callsMade, arrived, sentPayloads, callbackLog>>

Connect == ConnectWithin(MaxConnects)

\* callbacks.onopen of the i-th session
OnOpen(i) ==
  /\ sockets[i].state = "connecting"
  /\ sockets' = [sockets EXCEPT ![i].state = "open"]
  /\ isConnected' = TRUE
  /\ UNCHANGED <<session, clientQueue, waiting, lastOutcome, callsMade,
                 arrived, sentPayloads, callbackLog>>

\* await this.ai.live.connect of the i-th call resolves: this.session = ...
ConnectResolves(i) ==
  /\ sockets[i].pending
  /\ sockets[i].state \in {"open", "closed"}
  /\ sockets' = [sockets EXCEPT ![i].pending = FALSE]
  /\ session' = i
  /\ UNCHANGED <<isConnected, clientQueue, waiting, lastOutcome, callsMade,
                 arrived, sentPayloads, callbackLog>>

\* await this.ai.live.connect of the i-th call rejects: connect() rethrows
ConnectFails(i) ==
  /\ sockets[i].pending
  /\ sockets[i].state = "connecting"
  /\ sockets' = [sockets EXCEPT ![i] = Socket("closed", FALSE)]
  /\ UNCHANGED <<isConnected, session, clientQueue, waiting, lastOutcome,
                 callsMade, arrived, sentPayloads, callbackLog>>

\* the callbacks of onmessage, in the order of its statements
TurnEnds(message) == message.sc \in {"turnComplete", "interrupted"}

\* an onmessage that notifies the turn's end before it queues the message
MessageCallbacksNotifyFirst(message) ==
  (IF TurnEnds(message)
   THEN <<Called("onServerContent", message.id)>> ELSE <<>>)
  \o <<Called("push", message.id), Called("onMessage", message.id)>>
  \o (IF message.data = "pcm"
      THEN <<Called("onAudioChunk", message.id)>> ELSE <<>>)

MessageCallbacks(message) ==
  <<Called("push", message.id), Called("onMessage", message.id)>>
  \o (IF message.data = "pcm"
      THEN <<Called("onAudioChunk", message.id)>> ELSE <<>>)
  \o (IF TurnEnds(message)
      THEN <<Called("onServerContent", message.id)>> ELSE <<>>)

\* callbacks.onmessage
ClientOnMessage(data, sc) ==
  /\ AnyOpen
  /\ Len(arrived) < MaxArrivals
  /\ LET message == [id |-> Len(arrived) + 1, data |-> data, sc |-> sc] IN
     /\ arrived' = Append(arrived, message)
     /\ clientQueue' = Append(clientQueue, message)
     /\ callbackLog' = callbackLog \o MessageCallbacks(message)
  /\ UNCHANGED <<sockets, isConnected,
                 session, waiting, lastOutcome, callsMade, sentPayloads>>

\* callbacks.onerror calls config.onError and changes nothing of the client

\* callbacks.onclose of the i-th session: the server or the network closes
\* it
OnClose(i) ==
  /\ sockets[i].state = "open"
  /\ sockets' = [sockets EXCEPT ![i].state = "closed"]
  /\ isConnected' = FALSE
  /\ UNCHANGED <<session, clientQueue, waiting, lastOutcome, callsMade,
                 arrived, sentPayloads, callbackLog>>

\* callbacks.onclose of a session that disconnect() closed
OnCloseAfterDisconnect(i) ==
  /\ sockets[i].state = "closing"
  /\ sockets' = [sockets EXCEPT ![i].state = "closed"]
  /\ isConnected' = FALSE
  /\ UNCHANGED <<session, clientQueue, waiting, lastOutcome, callsMade,
                 arrived, sentPayloads, callbackLog>>

\* disconnect(): this.session is the session of the last connect() that
\* resolved
Disconnect ==
  /\ IF session = NoSession
     THEN UNCHANGED <<sockets, session, isConnected>>
     ELSE /\ sockets' = IF sockets[session].state = "open"
                        THEN [sockets EXCEPT ![session].state = "closing"]
                        ELSE sockets
          /\ session' = NoSession
          /\ isConnected' = FALSE
  /\ UNCHANGED <<clientQueue, waiting, lastOutcome, callsMade, arrived,
                 sentPayloads, callbackLog>>

SendKinds == {"text", "audio", "chunk"}

\* a guard that looks at the session only
NotConnectedSessionOnly == session = NoSession

\* if (!this.isConnected || !this.session)
NotConnected == ~isConnected \/ session = NoSession

\* history: the calls in flight when another sendText or sendAudio starts
Overlapped(ws) == [w \in 1..Len(ws) |-> [ws[w] EXCEPT !.alone = FALSE]]

\* sendText, sendAudio (up to the first poll of waitForTurn, which finds
\* the queue just emptied) and sendAudioChunk
Send(how) ==
  /\ callsMade < MaxCalls
  /\ callsMade' = callsMade + 1
  /\ IF NotConnected
     THEN /\ lastOutcome' = Outcome("Not connected", <<>>, Len(arrived), TRUE)
          /\ UNCHANGED <<clientQueue, sentPayloads, waiting>>
     ELSE /\ sentPayloads' = sentPayloads + 1
          /\ IF how = "chunk"
             THEN /\ lastOutcome' = Outcome("sent", <<>>, Len(arrived), TRUE)
                  /\ UNCHANGED <<clientQueue, waiting>>
             ELSE /\ waiting' = Append(Overlapped(waiting),
                                  [turns |-> <<>>, mark |-> Len(arrived),
                                   alone |-> waiting = <<>>])
                  /\ clientQueue' = <<>>
                  /\ UNCHANGED lastOutcome
  /\ UNCHANGED <<sockets, isConnected, session, arrived, callbackLog>>

\* a waitForTurn that ends the turn at turnComplete only
RECURSIVE WaitForTurnComplete(_, _)
WaitForTurnComplete(queue, turns_) ==
  IF queue = <<>> THEN [queue |-> queue, turns |-> turns_, done |-> FALSE]
  ELSE LET message == Head(queue) IN
       IF message.sc = "turnComplete"
       THEN [queue |-> Tail(queue), turns |-> Append(turns_, message),
             done |-> TRUE]
       ELSE WaitForTurnComplete(Tail(queue), Append(turns_, message))

\* waitForTurn from one poll of waitMessage that finds a message until the
\* queue is empty again or the turn is over
RECURSIVE WaitForTurn(_, _)
WaitForTurn(queue, turns_) ==
  IF queue = <<>> THEN [queue |-> queue, turns |-> turns_, done |-> FALSE]
  ELSE LET message == Head(queue) IN
       IF TurnEnds(message)
       THEN [queue |-> Tail(queue), turns |-> Append(turns_, message),
             done |-> TRUE]
       ELSE WaitForTurn(Tail(queue), Append(turns_, message))

\* setTimeout(checkQueue, 100) of the w-th waiting call fires and finds a
\* message
CheckQueue(w) ==
  /\ clientQueue # <<>>
  /\ LET r == WaitForTurn(clientQueue, waiting[w].turns) IN
     /\ clientQueue' = r.queue
     /\ IF r.done
        THEN /\ waiting' = RemoveAt(waiting, w)
             /\ lastOutcome' = Outcome("returned", r.turns, waiting[w].mark,
                                    waiting[w].alone)
             /\ callbackLog' =
                  Append(callbackLog,
                         Called("return", r.turns[Len(r.turns)].id))
        ELSE /\ waiting' = [waiting EXCEPT ![w].turns = r.turns]
             /\ UNCHANGED <<lastOutcome, callbackLog>>
  /\ UNCHANGED <<sockets, isConnected, session, arrived, sentPayloads,
                 callsMade>>

ClientPolls == \E w \in 1..Len(waiting) : CheckQueue(w)

ClientNext ==
  \/ Connect /\ UNCHANGED offClient
  \/ \E i \in 1..Len(sockets) : OnOpen(i) /\ UNCHANGED offClient
  \/ \E i \in 1..Len(sockets) : ConnectResolves(i) /\ UNCHANGED offClient
  \/ \E i \in 1..Len(sockets) : ConnectFails(i) /\ UNCHANGED offClient
  \/ \E data \in DataKinds : \E sc \in ServerContentKinds :
       ClientOnMessage(data, sc) /\ UNCHANGED offClient
  \/ \E i \in 1..Len(sockets) : OnClose(i) /\ UNCHANGED offClient
  \/ \E i \in 1..Len(sockets) :
       OnCloseAfterDisconnect(i) /\ UNCHANGED offClient
  \/ Disconnect /\ UNCHANGED offClient
  \/ \E how \in SendKinds : Send(how) /\ UNCHANGED offClient
  \/ ClientPolls /\ UNCHANGED offClient

\* the sessions' life cycle alone: connect(), its callbacks and disconnect()
SessionNext ==
  \/ ConnectWithin(MaxSessions) /\ UNCHANGED offClient
  \/ \E i \in 1..Len(sockets) : OnOpen(i) /\ UNCHANGED offClient
  \/ \E i \in 1..Len(sockets) : ConnectResolves(i) /\ UNCHANGED offClient
  \/ \E i \in 1..Len(sockets) : ConnectFails(i) /\ UNCHANGED offClient
  \/ \E i \in 1..Len(sockets) : OnClose(i) /\ UNCHANGED offClient
  \/ \E i \in 1..Len(sockets) :
       OnCloseAfterDisconnect(i) /\ UNCHANGED offClient
  \/ Disconnect /\ UNCHANGED offClient

(***************************************************************************)
(* MicPcmStreamer, feeding GeminiLiveClient.sendAudioChunk                 *)
(***************************************************************************)
MicInit ==
  /\ running = FALSE
  /\ micStream = "null"
  /\ micPending = 0
  /\ acquisitions = 0

\* start(onPcm), up to await navigator.mediaDevices.getUserMedia
MicStart ==
  /\ running \/ acquisitions < MaxAcquisitions
  /\ IF running
     THEN UNCHANGED <<running, micPending, acquisitions>>
     ELSE /\ running' = TRUE
          /\ micPending' = micPending + 1
          /\ acquisitions' = acquisitions + 1
  /\ UNCHANGED micStream

\* getUserMedia resolves: start() keeps the stream and wires the processor
MicGranted ==
  /\ micPending > 0
  /\ micPending' = micPending - 1
  /\ micStream' = "held"
  /\ UNCHANGED <<running, acquisitions>>

\* getUserMedia rejects (access denied): start() rejects
MicDenied ==
  /\ micPending > 0
  /\ micPending' = micPending - 1
  /\ UNCHANGED <<running, micStream, acquisitions>>

\* stop()
MicStop ==
  /\ IF ~running
     THEN UNCHANGED <<running, micStream>>
     ELSE /\ running' = FALSE
          /\ micStream' = "null"
  /\ UNCHANGED <<micPending, acquisitions>>

\* processor.onaudioprocess with a non-empty chunk: onPcm hands it to
\* sendAudioChunk
OnAudioProcess ==
  /\ micStream = "held"
  /\ running
  /\ Send("chunk")

MicNext ==
  \/ MicStart /\ UNCHANGED offMic
  \/ MicGranted /\ UNCHANGED offMic
  \/ MicDenied /\ UNCHANGED offMic
  \/ MicStop /\ UNCHANGED offMic
  \/ OnAudioProcess /\ UNCHANGED offClient
  \/ Connect /\ UNCHANGED offClient
  \/ \E i \in 1..Len(sockets) : OnOpen(i) /\ UNCHANGED offClient
  \/ \E i \in 1..Len(sockets) : ConnectResolves(i) /\ UNCHANGED offClient
  \/ \E i \in 1..Len(sockets) : OnClose(i) /\ UNCHANGED offClient
  \/ Disconnect /\ UNCHANGED offClient

(***************************************************************************)
(* One-shot chat: POST /api/chat and handleSendMessage of its page         *)
(***************************************************************************)
NoResponse == [status |-> 0, message |-> <<>>, audioUrl |-> NoAudio]
Thrown == <<"throw">>

\* texts generateText answers with
ChatTexts == {<<"a">>, <<"b", ".">>}
\* a VOICEVOX request: response.ok, !response.ok, or fetch/json rejects
VoicevoxOutcomes == {"ok", "notOk", "throws"}

ChatInit ==
  /\ chatMessages = <<>>
  /\ chatLoading = FALSE
  /\ chatPc = "idle"
  /\ chatResponse = NoResponse
  /\ chatModel = FALSE
  /\ speakCalls = 0
  /\ alerts = 0
  /\ synthesisFailed = FALSE

\* a generateAudioFromText that lets a failed request escape
generateAudioRethrows(text, query, synthesis) ==
  IF query = "ok" /\ synthesis = "ok" THEN AudioOf(text) ELSE Thrown

\* generateAudioFromText(text): a data URL, or null after any failure
generateAudioFromText(text, query, synthesis) ==
  IF query # "ok" THEN NoAudio
  ELSE IF synthesis # "ok" THEN NoAudio
  ELSE AudioOf(text)

\* POST(request): generated is the text of generateText, or Thrown
POST(generated, query, synthesis) ==
  IF generated = Thrown
  THEN [status |-> 500, message |-> <<>>, audioUrl |-> NoAudio]
  ELSE LET audioUrl == generateAudioFromText(generated, query, synthesis) IN
       IF audioUrl = Thrown
       THEN [status |-> 500, message |-> <<>>, audioUrl |-> NoAudio]
       ELSE [status |-> 200, message |-> generated, audioUrl |-> audioUrl]

\* initLive2D: setModel(model)
ChatInitLive2D ==
  /\ ~chatModel
  /\ chatModel' = TRUE
  /\ UNCHANGED <<chatMessages, chatLoading, chatPc, chatResponse, speakCalls,
                 alerts, synthesisFailed>>

\* handleSendMessage up to await fetch
ChatSend ==
  /\ ~chatLoading
  /\ Len(chatMessages) < 2 * MaxRequests
  /\ chatMessages' = Append(chatMessages, [role |-> "user", content |-> <<"u">>])
  /\ chatLoading' = TRUE
  /\ chatPc' = "fetching"
  /\ chatResponse' = NoResponse
  /\ synthesisFailed' = FALSE
  /\ UNCHANGED <<chatModel, speakCalls, alerts>>

\* the endpoint answers the request
ChatEndpoint(generated, query, synthesis) ==
  /\ chatPc = "fetching"
  /\ chatResponse = NoResponse
  /\ chatResponse' = POST(generated, query, synthesis)
  /\ synthesisFailed' = (generated # Thrown
                           /\ ~(query = "ok" /\ synthesis = "ok"))
  /\ UNCHANGED <<chatMessages, chatLoading, chatPc, chatModel, speakCalls,
                 alerts>>

\* fetch rejects: catch, alert, finally
ChatFetchFails ==
  /\ chatPc = "fetching"
  /\ chatResponse = NoResponse
  /\ alerts' = alerts + 1
  /\ chatLoading' = FALSE
  /\ chatPc' = "idle"
  /\ UNCHANGED <<chatMessages, chatResponse, chatModel, speakCalls,
                 synthesisFailed>>

\* handleSendMessage after await fetch
ChatReceives ==
  /\ chatPc = "fetching"
  /\ chatResponse # NoResponse
  /\ IF chatResponse.status # 200
     THEN /\ alerts' = alerts + 1
          /\ chatLoading' = FALSE
          /\ chatPc' = "idle"
          /\ UNCHANGED <<chatMessages, speakCalls>>
     ELSE /\ chatMessages' =
               Append(chatMessages,
                      [role |-> "assistant", content |-> chatResponse.message])
          /\ IF chatModel /\ chatResponse.audioUrl # NoAudio
             THEN /\ speakCalls' = speakCalls + 1
                  /\ chatPc' = "speaking"
                  /\ UNCHANGED chatLoading
             ELSE /\ chatLoading' = FALSE
                  /\ chatPc' = "idle"
                  /\ UNCHANGED speakCalls
          /\ UNCHANGED alerts
  /\ UNCHANGED <<chatResponse, chatModel, synthesisFailed>>

\* await model.speak settles (a rejection is caught and logged)
ChatSpeakSettles ==
  /\ chatPc = "speaking"
  /\ chatPc' = "idle"
  /\ chatLoading' = FALSE
  /\ UNCHANGED <<chatMessages, chatResponse, chatModel, speakCalls, alerts,
                 synthesisFailed>>

ChatNext ==
  \/ ChatInitLive2D /\ UNCHANGED offChat
  \/ ChatSend /\ UNCHANGED offChat
  \/ \E generated \in ChatTexts \cup {Thrown} :
     \E query \in VoicevoxOutcomes : \E synthesis \in VoicevoxOutcomes :
       ChatEndpoint(generated, query, synthesis) /\ UNCHANGED offChat
  \/ ChatFetchFails /\ UNCHANGED offChat
  \/ ChatReceives /\ UNCHANGED offChat
  \/ ChatSpeakSettles /\ UNCHANGED offChat

(***************************************************************************)
(* AudioPlayer (part_006): one-shot playback of a PCM buffer               *)
(***************************************************************************)
\* this.currentSource = null
NoSource == 0

SoundInit ==
  /\ currentSource = NoSource
  /\ sourceStates = <<>>

\* source.stop(): a source that is playing stops and its ended event is
\* queued; a source that has ended stays as it is
Stopped(states, source) ==
  IF states[source] = "playing" THEN [states EXCEPT ![source] = "stopping"]
  ELSE states

\* stopAudio() as far as it changes the sources
StopCurrent ==
  IF currentSource # NoSource THEN Stopped(sourceStates, currentSource)
  ELSE sourceStates

\* playAudioData with an AudioContext available: stopAudio(), then a new
\* source is created, recorded in currentSource and started
PlayAudioData ==
  /\ Len(sourceStates) < MaxPlays
  /\ sourceStates' = Append(StopCurrent, "playing")
  /\ currentSource' = Len(sourceStates) + 1

\* stopAudio()
StopAudio ==
  /\ sourceStates' = StopCurrent
  /\ currentSource' = NoSource

\* the ended event of a source, after it played to its end or after
\* stop(): its onended handler runs
OnEnded(source) ==
  /\ sourceStates[source] \in {"playing", "stopping"}
  /\ sourceStates' = [sourceStates EXCEPT ![source] = "ended"]
  /\ currentSource' = NoSource

\* isPlaying()
IsPlaying == currentSource # NoSource

SoundNext ==
  \/ PlayAudioData /\ UNCHANGED offSound
  \/ StopAudio /\ UNCHANGED offSound
  \/ \E source \in 1..Len(sourceStates) : OnEnded(source) /\ UNCHANGED offSound

Init == PageInit /\ SplitIdle /\ LipInit /\ StrategyIdle /\ GeminiInit /\ PlayerInit /\ ClientInit /\ MicInit /\ ChatInit /\ SoundInit

StrategyStart ==
  PageInit /\ SplitIdle /\ LipInit /\ TextInit /\ EventInit /\ GeminiInit
    /\ RealAudioInit /\ strategy \in Strategies /\ PlayerInit /\ ClientInit /\ MicInit /\ ChatInit /\ SoundInit

StrategyNext == AudioBasedNext \/ TextNext \/ EventNext \/ RealAudioNext

Next ==
  \/ HandleSendMessage /\ UNCHANGED offPage
  \/ ChatRequestFails /\ UNCHANGED offPage
  \/ ChatResponseArrives /\ UNCHANGED offPage
  \/ \E chunk \in ReadChunks : StreamRead(chunk) /\ UNCHANGED offPage
  \/ StreamDone /\ UNCHANGED offPage
  \/ StreamFails /\ UNCHANGED offPage
  \/ \E r \in inflight : SynthesisSucceeds(r) /\ UNCHANGED offPage
  \/ \E r \in inflight : SynthesisReturnsNoAudio(r) /\ UNCHANGED offPage
  \/ \E r \in inflight : SynthesisFails(r) /\ UNCHANGED offPage
  \/ TimerFires /\ UNCHANGED offPage
  \/ \E p \in playing : SpeakFinishes(p) /\ UNCHANGED offPage
  \/ \E p \in playing : SpeakErrors(p) /\ UNCHANGED offPage

vars == <<pageVars, splitVars, lipVars, strategyVars, geminiVars, playerVars, clientVars, micVars, chatVars, soundVars>>

Spec == Init /\ [][Next]_vars

SplitNext ==
  \/ SplitFound /\ UNCHANGED offSplit
  \/ SplitReturn /\ UNCHANGED offSplit

\* a running loop keeps running
SplitStart == PageInit /\ SplitInit /\ LipInit /\ StrategyIdle /\ GeminiInit /\ PlayerInit /\ ClientInit /\ MicInit /\ ChatInit /\ SoundInit

SplitSpec == SplitStart /\ [][SplitNext]_vars /\ WF_vars(SplitNext)

LipSpec == Init /\ [][LipNext]_vars

StrategySpec == StrategyStart /\ [][StrategyNext]_vars

GeminiSpec == Init /\ [][GeminiNext]_vars

PlayerSpec == Init /\ [][PlayerNext]_vars

\* the timers of waitMessage fire as long as the page lives
ClientSpec == Init /\ [][ClientNext]_vars /\ WF_vars(ClientPolls /\ UNCHANGED offClient)

SessionSpec == Init /\ [][SessionNext]_vars

MicSpec == Init /\ [][MicNext]_vars

SoundSpec == Init /\ [][SoundNext]_vars

ChatSpec == Init /\ [][ChatNext]_vars

\* animation frames keep being delivered to a running fallback loop
FallbackFrames ==
  \E i \in 1..MaxTriggers : \E elapsed \in FallbackFrameTimes :
    AnimateFromText(i, elapsed) /\ UNCHANGED offLip

\* triggerSpeaking and what follows from it
FallbackNext ==
  \/ \E webrtc \in WebRTCOutcomes :
       TriggerSpeaking(webrtc) /\ UNCHANGED offLip
  \/ \E capture \in {"stream", "null"} : \E page \in {"element", "observer"} :
       CaptureSettles(capture, page) /\ UNCHANGED <<offLip, fallbackVars>>
  \/ \E input \in FrameInputs :
       AnalyzeAudio("live", input) /\ UNCHANGED <<offLip, fallbackVars>>
  \/ Dispose /\ UNCHANGED offLip
  \/ FallbackTimerFires /\ UNCHANGED offLip
  \/ FallbackFrames

\* timers fire and animation frames are delivered; whether and when a
\* capture prompt is answered is up to the user
FallbackSpec ==
  /\ Init /\ [][FallbackNext]_vars
  /\ WF_vars(FallbackFrames)
  /\ WF_vars(FallbackTimerFires /\ UNCHANGED offLip)

(***************************************************************************)
(* Fairness: timers fire, requests complete, playbacks report back, the    *)
(* response stream makes progress.  The user (HandleSendMessage) is free.  *)
(***************************************************************************)
SynthesisCompletes ==
  \E r \in inflight :
    SynthesisSucceeds(r) \/ SynthesisReturnsNoAudio(r) \/ SynthesisFails(r)
PlaybackReports == \E p \in playing : SpeakFinishes(p) \/ SpeakErrors(p)
StreamProgress ==
  \/ ChatRequestFails \/ ChatResponseArrives
  \/ (\E chunk \in ReadChunks : StreamRead(chunk)) \/ StreamDone \/ StreamFails

PageFairness ==
  /\ WF_vars(TimerFires /\ UNCHANGED offPage)
  /\ WF_vars(SynthesisCompletes /\ UNCHANGED offPage)
  /\ WF_vars(PlaybackReports /\ UNCHANGED offPage)
  /\ WF_vars(StreamProgress /\ UNCHANGED offPage)

FairSpec == Init /\ [][Next]_vars /\ PageFairness

\* the page with a synthesis endpoint that always answers an audioUrl or fails
NextAudio ==
  \/ HandleSendMessage /\ UNCHANGED offPage
  \/ ChatRequestFails /\ UNCHANGED offPage
  \/ ChatResponseArrives /\ UNCHANGED offPage
  \/ \E chunk \in ReadChunks : StreamRead(chunk) /\ UNCHANGED offPage
  \/ StreamDone /\ UNCHANGED offPage
  \/ StreamFails /\ UNCHANGED offPage
  \/ \E r \in inflight : SynthesisSucceeds(r) /\ UNCHANGED offPage
  \/ \E r \in inflight : SynthesisFails(r) /\ UNCHANGED offPage
  \/ TimerFires /\ UNCHANGED offPage
  \/ \E p \in playing : SpeakFinishes(p) /\ UNCHANGED offPage
  \/ \E p \in playing : SpeakErrors(p) /\ UNCHANGED offPage

SpecAudio == Init /\ [][NextAudio]_vars

(***************************************************************************)
(* Ordered speech queue: properties                                        *)
(***************************************************************************)
QueueUids == {Uid(audioQueue[k]) : k \in 1..Len(audioQueue)}
LogIndex(g, i, result) ==
  {n \in 1..Len(synthLog) : synthLog[n] = <<g, i, result>>}

\* C1: chunks start playing in the order they were enqueued, whatever the
\* order in which their synthesis requests complete: the playback history
\* is in enqueue order, and every chunk still in the queue was enqueued
\* after every chunk that has started playing.
C1_PlaybackInEnqueueOrder ==
  /\ \A i, j \in 1..Len(played) : i < j => Before(played[i], played[j])
  /\ \A i \in 1..Len(played) : \A u \in QueueUids : Before(played[i], u)

\* two chunks of one response played in order although the synthesis of the
\* second completed first
C1_Witness ==
  \E i \in 1..Len(played) : \E j \in 1..Len(played) :
    /\ i < j
    /\ played[i][1] = played[j][1]
    /\ \E m \in LogIndex(played[j][1], played[j][2], "audio") :
         \E n \in LogIndex(played[i][1], played[i][2], "audio") : m < n

\* C2: playback is strictly serialized: at most one model.speak started by
\* processAudioQueue is in progress in every reachable state.
C2_OnePlaybackAtATime == Cardinality(playing) <= 1

\* C3: a synthesis completion affects only the chunk it was issued for:
\* a chunk's audio is written at most once and is the audio of its own
\* text, and a failed completion removes exactly the chunk of that request,
\* also across a reset by handleSendMessage.
OwnAudioOnly ==
  /\ \A k \in 1..Len(audioQueue) :
       /\ audioQueue[k].writes <= 1
       /\ audioQueue[k].audioUrl \in {NoAudio, AudioOf(audioQueue[k].text)}
  /\ \A p \in playing : p.audioUrl = AudioOf(p.text)
C3_CompletionTouchesOwnChunk ==
  [][/\ OwnAudioOnly'
     /\ \A r \in inflight :
          SynthesisFails(r) =>
            audioQueue' = SelectSeq(audioQueue,
                                    LAMBDA item : Uid(item) # Uid(r))]_vars

\* C4: a failed synthesis does not halt the sequence: every chunk enqueued
\* after a chunk whose synthesis failed, and whose own synthesis succeeds,
\* is eventually played, given that every playback reports back.  Stated
\* on the states in which nothing is pending any more (no request, timer,
\* playback or stream): what has not been played by then never will be.
\* A chunk whose response a later handleSendMessage replaced is excused.
ChunkUids == (1..MaxResponses) \X (0..(MaxStreamLen - 1))
PlayedUids == {played[i] : i \in 1..Len(played)}
SucceededAfterFailure(u) ==
  /\ LogIndex(u[1], u[2], "audio") # {}
  /\ \E f \in ChunkUids : Before(f, u) /\ LogIndex(f[1], f[2], "failed") # {}
Quiescent ==
  hsm.pc = "idle" /\ inflight = {} /\ timers = 0 /\ playing = {}
C4_FailureDoesNotHaltSequence ==
  Quiescent =>
    \A u \in ChunkUids :
      SucceededAfterFailure(u) => (u \in PlayedUids \/ gen > u[1])

\* C5: once the stream has ended and every synthesis request has completed,
\* whatever its outcome, the queue eventually becomes empty and the
\* processing flag false, given that every playback reports back.
C5_QueueEventuallyDrains ==
  (hsm.pc = "idle" /\ inflight = {}) ~>
    (audioQueue = <<>> /\ ~isProcessingQueueRef)

\* C6: an unresolved head blocks later chunks but not synthesis: a chunk
\* that starts playing is the head of the queue and resolved, and every
\* chunk entering the queue has its synthesis request issued in the same
\* step, whatever is pending or playing.
C6_HeadBlocksPlaybackNotSynthesis ==
  [][/\ played' # played =>
          /\ Len(audioQueue) > 0
          /\ played' = Append(played, Uid(audioQueue[1]))
          /\ \E p \in playing' \ playing :
               Uid(p) = Uid(audioQueue[1]) /\ p.audioUrl # NoAudio
     /\ \A k \in 1..Len(audioQueue') :
          Uid(audioQueue'[k]) \notin QueueUids =>
            [gen |-> audioQueue'[k].gen, id |-> audioQueue'[k].id,
             text |-> audioQueue'[k].text] \in inflight']_vars

\* the head is still being synthesized while the chunk behind it, whose
\* request was issued meanwhile, is already resolved and waits
C6_Witness ==
  /\ Len(audioQueue) >= 2
  /\ audioQueue[1].audioUrl = NoAudio
  /\ audioQueue[2].audioUrl # NoAudio
  /\ \E r \in inflight : Uid(r) = Uid(audioQueue[1])
  /\ \A i \in 1..Len(played) : played[i][1] < gen

\* C7: a playback error is not fatal to the queue: onError clears the
\* processing flag and leaves the queue state exactly as onFinish would,
\* with a timer armed for the next chunk when one is queued.
C7_PlaybackErrorAdvances ==
  [][\A p \in playing :
       SpeakErrors(p) =>
         /\ ~isProcessingQueueRef'
         /\ QueueState' = OnFinish(QueueState, p)
         /\ Len(audioQueue) > 0 => timers' = timers + 1]_vars

\* the chunk after one whose playback reported onError is playing
C7_Witness ==
  /\ lastCallback = "onError"
  /\ Len(played) >= 2
  /\ played[Len(played) - 1][1] = played[Len(played)][1]
  /\ \A n \in 1..Len(synthLog) : synthLog[n][3] = "audio"
  /\ \E p \in playing : playing = {p} /\ Uid(p) = played[Len(played)]

\* C8: a trailing remainder without terminator is not enqueued while the
\* stream is open, and is enqueued as the final chunk when the stream ends,
\* whatever its length.
HasPunctuation(s) == \E i \in 1..Len(s) : s[i] \in punctuationMarks
NewItems == {k \in 1..Len(audioQueue') : Uid(audioQueue'[k]) \notin QueueUids}
C8_RemainderFlushedAtEnd ==
  [][/\ \A chunk \in ReadChunks :
          StreamRead(chunk) =>
            /\ ~HasPunctuation(hsm'.remainingText)
            /\ \A k \in NewItems : HasPunctuation(audioQueue'[k].text)
     /\ StreamDone =>
          (Trim(hsm.remainingText) # <<>> =>
             \E k \in NewItems : audioQueue'[k].text = Trim(hsm.remainingText))
    ]_vars

RECURSIVE Reassembles(_, _, _)
Reassembles(text, chunks, remaining) ==
  IF chunks = <<>> THEN Trim(text) = Trim(remaining)
  ELSE LET rest == TrimStart(text)
           c == Head(chunks) IN
       /\ Len(c) <= Len(rest)
       /\ SubSeq(rest, 1, Len(c)) = c
       /\ Reassembles(SubSeq(rest, Len(c) + 1, Len(rest)), Tail(chunks),
                      remaining)

SplitResultCorrect ==
  spPc = "done" =>
    /\ [completed |-> spCompleted, remaining |-> spCurrent]
         = splitByPunctuation(spInput)
    /\ \A k \in 1..Len(spCompleted) :
         LET c == spCompleted[k] IN
         /\ Len(c) > 0
         /\ c[Len(c)] \in punctuationMarks
         /\ \A i \in 1..(Len(c) - 1) : c[i] \notin punctuationMarks
    /\ ~HasPunctuation(spCurrent)
    /\ Reassembles(spInput, spCompleted, spCurrent)
    /\ spInput = ExampleText =>
         /\ spCompleted = << <<"H", "e", "l", "l", "o", ".">>,
                             <<"H", "o", "w", " ", "a", "r", "e", " ",
                               "y", "o", "u", "?">> >>
         /\ spCurrent = <<"F", "i", "n", "e">>

\* C9: splitByPunctuation returns the completed chunks in order of
\* appearance, each non-empty, ending with a terminator and holding no
\* other terminator, and a remaining text without terminator; chunks and
\* remaining reassemble the input up to whitespace trimmed at the chunk
\* boundaries ("Hello. How are you? Fine" gives "Hello.", "How are you?"
\* and "Fine"); every loop turn shortens the current text and the loop
\* terminates on every input.
C9_SplitByPunctuation ==
  /\ []SplitResultCorrect
  /\ [][spPc' = "loop" => Len(spCurrent') < Len(spCurrent)]_vars
  /\ <>(spPc = "done")

\* the example of the specification has been split
C9_Witness ==
  /\ spPc = "done"
  /\ spInput = ExampleText
  /\ Len(spCompleted) = 2

(***************************************************************************)
(* Audio-based lip-sync monitor: properties                                *)
(***************************************************************************)
\* C10: while a monitoring session is active and holds a frame handle, every
\* execution of analyzeAudio (silent frame, non-silent frame or analysis
\* error) leaves its next execution scheduled.
C10_EveryFrameSchedulesNext ==
  [][\A which \in {"live", "orphan"} : \A input \in FrameInputs :
       (isMonitoring /\ animationId # "null" /\ AnalyzeAudio(which, input))
         => animationId' = "live"]_vars

\* animation-frame loops of the session that have a frame pending
LoopsRunning ==
  (IF animationId = "live" THEN 1 ELSE 0) + orphanFrames + Len(fallbackLoops)

\* C11: at most one animation-frame loop of a session is running at any
\* time: never an analyzer loop together with a fallback loop, never two
\* analyzer loops, never two fallback loops.
C11_SingleMouthLoop == LoopsRunning <= 1

\* C12: once dispose() has been called (and nothing is called on the
\* session afterwards), no timer, interval or frame callback of the session
\* writes ParamMouthOpenY or binds an audio source.
C12_LateCallbacksIgnored ==
  [][(disposed /\ disposed')
       => (mouth' = mouth /\ audioCapture' = audioCapture)]_vars

\* C13: for every strategy that writes the mouth parameter itself, the
\* parameter is 0 when dispose() returns.
C13_DisposeClosesMouth ==
  [][/\ (strategy = "audioBased" /\ Dispose) => mouth' = 0
     /\ TextDispose => textMouth' = 0
     /\ EventDispose => eventMouth' = 0]_vars

\* the fallback loops that have just run a frame and go on
FallbackAdvanced ==
  {i \in 1..Len(fallbackLoops) :
     Len(fallbackLoops') = Len(fallbackLoops)
       /\ fallbackLoops'[i] # fallbackLoops[i]}

\* C14: when the 5 second timer of triggerSpeaking finds no connection,
\* element or stream, a fallback loop starts with an open mouth; each of its
\* frames writes a value within [0,1] that differs from the one of its
\* previous frame; the frame at 3 seconds writes 0 and ends the loop; and
\* with animation frames alone every running loop ends.
C14_FallbackRunsAndEnds ==
  /\ [][(fallbackTimers' < fallbackTimers /\ ~HasRealSource(audioCapture))
          => /\ Len(fallbackLoops') = Len(fallbackLoops) + 1
             /\ mouth' > 0 /\ mouth' <= Unit]_vars
  /\ [][\A i \in FallbackAdvanced :
          /\ mouth' = FallbackValue(fallbackLoops'[i])
          /\ mouth' >= 0 /\ mouth' <= Unit
          /\ fallbackLoops'[i] < FallbackDuration
          /\ FallbackValue(fallbackLoops'[i]) # FallbackValue(fallbackLoops[i])]_vars
  /\ [][Len(fallbackLoops') < Len(fallbackLoops) => mouth' = 0]_vars
  /\ (fallbackLoops # <<>>) ~> (fallbackLoops = <<>>)

C14_Witness ==
  /\ triggered > 0
  /\ \E i \in 1..Len(fallbackLoops) : fallbackLoops[i] = 1500
  /\ mouth = FallbackValue(1500)
  /\ ~HasRealSource(audioCapture)

(***************************************************************************)
(* Gemini Live chat: properties                                            *)
(***************************************************************************)
\* C15: once an interrupted notification has been handled, no chunk
\* received before it is scheduled on the player: the scheduled sources are
\* all from after the last interruption.
C15_InterruptDiscardsEarlierAudio ==
  \A i \in 1..Len(scheduledSources) :
    scheduledSources[i].epoch = interruptions

\* C16: the first mouthSync frame after an interrupted notification leaves
\* the mouth closed, when no audio has been received since the notification.
C16_InterruptClosesMouth ==
  [][(/\ interruptPending
      /\ ~interruptPending'
      /\ \A i \in 1..Len(awaitingResume) :
           awaitingResume[i].epoch < interruptions
      /\ \A i \in 1..Len(scheduledSources) :
           scheduledSources[i].epoch < interruptions)
       => geminiMouth' = 0]_vars

\* C17: no audio chunk is sounded twice, by the streaming player and again
\* by live2dModel.speak at the end of the turn.
C17_NoDoublePlay == streamedOut \cap spoken = {}

\* C18: at most one audio signal is bound to the model at any time, and
\* after dispose() none is left.
C18_OneBoundSignal ==
  /\ Cardinality(bindings) <= 1
  /\ ~trackListener => bindings = {}

\* C19: every startMonitoring run that waits for a source-acquisition
\* attempt goes on, in bounded time, to start the analysis loop.
C19_AcquisitionWaitIsBounded == (startsAwaiting > 0) ~> (startsAwaiting = 0)

PriorityOrder == <<"webrtc", "capture", "page", "hijack">>

\* C20: the strategies a startMonitoring run tried are the first ones of the
\* priority order, each but the last yielded no source, and a run whose last
\* strategy yielded nothing has tried all four.
C20_StrategiesInPriorityOrder ==
  attempts # <<>> =>
    /\ Len(attempts) <= Len(PriorityOrder)
    /\ \A i \in 1..Len(attempts) : attempts[i].strategy = PriorityOrder[i]
    /\ \A i \in 1..(Len(attempts) - 1) : attempts[i].yielded = "null"
    /\ attempts[Len(attempts)].yielded = "null"
         => Len(attempts) = Len(PriorityOrder)

C20_Witness ==
  /\ Len(attempts) = 3
  /\ attempts[3] = Tried("page", "observer")
  /\ audioCapture = "observer"
  /\ animationId = "live"

(***************************************************************************)
(* Mouth value mapping: properties                                         *)
(***************************************************************************)
\* C21: on every analysis frame whose raw loudness is 0 or below the
\* silence threshold, the value written to ParamMouthOpenY is exactly 0,
\* never the positive floor: in analyzeAudio for a clamped RMS below
\* silenceThreshold, in the text-based animateMouth for a raw value of 0.
C21_SilenceClosesMouth ==
  [][/\ \A input \in {x \in RmsLevels : x < SilenceThreshold} :
          (isMonitoring /\ AnalyzeAudio("live", input)) => mouth' = 0
     /\ \A rawValue \in {x \in RawLevels : x < SilenceThreshold} :
          (isSpeaking /\ ~textClosing /\ AnimateMouth(rawValue))
            => textMouth' = 0]_vars

\* a silent frame of a monitoring audio-based session has been analysed:
\* the mouth is closed and the frame handle names the frame that ran
C21_Witness ==
  /\ strategy = "audioBased" /\ isMonitoring /\ audioCapture # "null"
  /\ animationId = "stale" /\ mouth = 0

\* clamp(value, lo, hi)
Clamp(value, lo, hi) == Max2(lo, Min2(hi, value))

\* C22: on every analysis frame whose raw loudness is above the silence
\* threshold the written value is clamp(raw * weight, floor, ceiling) and
\* lies within [floor, ceiling] inside [0, 1]: [0.2, 0.8] with weight 0.6 in
\* analyzeAudio, [0.4, 1.0] with weight 1.2 in the text-based animateMouth.
C22_LoudFrameWithinFloorAndCeiling ==
  [][/\ \A input \in {x \in RmsLevels : x > SilenceThreshold} :
          (isMonitoring /\ AnalyzeAudio("live", input))
            => /\ mouth' = Clamp((input * 600) \div Unit, 200, 800)
               /\ 0 <= 200 /\ 200 <= mouth' /\ mouth' <= 800 /\ 800 <= Unit
     /\ \A rawValue \in {x \in RawLevels : x > SilenceThreshold} :
          (isSpeaking /\ ~textClosing /\ AnimateMouth(rawValue))
            => /\ textMouth' = Clamp((rawValue * 1200) \div Unit, 400, Unit)
               /\ 0 <= 400 /\ 400 <= textMouth' /\ textMouth' <= Unit]_vars

\* a loud frame of a monitoring audio-based session has written a value
\* strictly between floor and ceiling and has requested the next frame
C22_Witness ==
  /\ strategy = "audioBased" /\ isMonitoring /\ audioCapture # "null"
  /\ animationId = "live" /\ mouth = 300

\* C23: in text-based lip-sync, once the 4-second speaking window since the
\* last trigger has elapsed and no new trigger arrives, every frame
\* multiplies the mouth value by 0.9, strictly decreasing it, and the frame
\* that ends the decay leaves the mouth closed (value 0).
C23_DecayReturnsToClosed ==
  [][\A rawValue \in RawLevels :
       (isSpeaking /\ textClosing /\ AnimateMouth(rawValue))
         => /\ textMouth' = (textMouth * 900) \div Unit
            /\ textMouth > 0 => textMouth' < textMouth
            /\ ~isSpeaking' => textMouth' = 0]_vars

\* C37: in event-based lip-sync, when an audio event carries an ArrayBuffer
\* of 16-bit PCM, currentVolume is min(1, mean absolute sample / 10000) of
\* that buffer when the handler returns, and the frames that follow write
\* the mouth value clamp(2 * currentVolume, 0, 1).
C37_BufferSetsTheVolume ==
  [][/\ \A mean \in BufferMeans : \A volume \in VolumeLevels :
          OnAudioEvent("buffer", mean, volume)
            => currentVolume' = BufferVolume(mean)
     /\ AnalyzeAndUpdate
          => eventMouth' = Clamp(2 * currentVolume, 0, Unit)]_vars

(***************************************************************************)
(* StreamingAudioPlayer: properties                                        *)
(***************************************************************************)
\* C24: for any sequence of enqueue calls without an intervening flush,
\* chunks are scheduled in arrival order without overlap, each starting at
\* max(end of the previously scheduled chunk, current time + 50 ms): never
\* earlier than 50 ms after it was enqueued, and exactly at the previous
\* chunk's end whenever that end is at least 50 ms ahead.
C24_GaplessSequentialSchedule ==
  \A i \in 1..Len(sourcesLog) :
    LET chunk == sourcesLog[i] IN
    /\ chunk.startAt >= chunk.at + 50
    /\ chunk.startAt < chunk.endAt
    /\ i > 1 =>
         LET previous == sourcesLog[i - 1] IN
         /\ previous.at <= chunk.at
         /\ previous.endAt <= chunk.startAt
         /\ chunk.startAt = Max2(previous.endAt, chunk.at + 50)
         /\ previous.endAt >= chunk.at + 50 => chunk.startAt = previous.endAt

\* three chunks are scheduled: the second back to back with the first, the
\* third after a gap, 50 ms after it was enqueued
C24_Witness ==
  /\ Len(sourcesLog) = 3
  /\ sourcesLog[2].startAt = sourcesLog[1].endAt
  /\ sourcesLog[2].startAt > sourcesLog[2].at + 50
  /\ sourcesLog[3].startAt > sourcesLog[2].endAt
  /\ sourcesLog[3].startAt = sourcesLog[3].at + 50

\* C35: after flushAndStop() the set of scheduled sources is empty and the
\* playback cursor equals the current time, so that the next enqueued chunk
\* starts at the time of its enqueue + 50 ms, whatever was scheduled before
\* the flush.
C35_FlushResetsTheCursor ==
  /\ [][(audioContext /\ PlayerFlushAndStop)
          => (sourcesLog' = <<>> /\ playbackTime' = now')]_vars
  /\ []((flushed /\ sourcesLog # <<>>)
          => sourcesLog[1].startAt = sourcesLog[1].at + MinLead)

\* a chunk was enqueued 30 ms after the context started and after a
\* flush: it starts 50 ms after its enqueue
C35_Witness ==
  /\ flushed
  /\ Len(sourcesLog) = 1
  /\ sourcesLog[1].at = 30
  /\ sourcesLog[1].startAt = 80

\* C36: dispose() is terminal: once it has been called the player has no
\* AudioContext and no scheduled source, and a later enqueue() or resume()
\* schedules no audio and creates no new AudioContext.
C36_DisposeIsTerminal ==
  playerDisposed => (~audioContext /\ sourcesLog = <<>>)

(***************************************************************************)
(* GeminiLiveClient: properties                                            *)
(***************************************************************************)
\* C25: every sendText or sendAudio call eventually settles; in particular
\* a call that is waiting for its turn when the session is closed (by the
\* server, after an error, or by disconnect()) resolves or rejects rather
\* than waiting for ever.
C25_SendSettlesWhenSessionEnds ==
  (waiting # <<>> /\ ~AnyOpen) ~> (waiting = <<>>)

\* C26: sendText, sendAudio and sendAudioChunk called on a client that is
\* not connected (before onopen, after onclose, after disconnect) fail with
\* "Not connected", send nothing to the session and leave the response
\* queue unchanged.
C26_NotConnectedSendFails ==
  [][\A how \in SendKinds :
       (~AnyOpen /\ Send(how))
         => /\ lastOutcome'.result = "Not connected"
            /\ sentPayloads' = sentPayloads
            /\ clientQueue' = clientQueue
            /\ waiting' = waiting]_vars

\* a send on a session the server has closed failed, and the messages
\* received before are still queued
C26_Witness ==
  /\ sockets # <<>> /\ ~AnyOpen /\ session # NoSession
  /\ lastOutcome.result = "Not connected"
  /\ clientQueue # <<>> /\ sentPayloads = 0

\* positions of a callback of a message in the log
Positions(cb, id) ==
  {i \in 1..Len(callbackLog) :
     callbackLog[i].id = id /\ callbackLog[i].cb = cb}

\* C29: for each incoming message the client appends it to the response
\* queue, then calls onMessage, then onAudioChunk (only if the message
\* carries data), then onServerContent (only if turnComplete or interrupted
\* is set); audio chunks reach onAudioChunk in arrival order; and the
\* turn-lifecycle notification of a turn is delivered before the call
\* waiting for that turn returns.
C29_CallbackOrder ==
  /\ \A m \in 1..Len(arrived) :
       LET message == arrived[m]
           push == Positions("push", m)
           onMessage == Positions("onMessage", m)
           onAudioChunk == Positions("onAudioChunk", m)
           onServerContent == Positions("onServerContent", m)
       IN
       /\ Cardinality(push) = 1
       /\ Cardinality(onMessage) = 1
       /\ \A i \in push : \A j \in onMessage : i < j
       /\ onAudioChunk # {} => message.data # "none"
       /\ \A i \in onMessage : \A j \in onAudioChunk : i < j
       /\ onServerContent # {}
            <=> message.sc \in {"turnComplete", "interrupted"}
       /\ \A i \in onMessage \cup onAudioChunk :
            \A j \in onServerContent : i < j
       /\ \A r \in Positions("return", m) :
            \E j \in onServerContent : j < r
  /\ \A i \in 1..Len(callbackLog) :
       callbackLog[i].cb = "onAudioChunk"
         => \A j \in (i + 1)..Len(callbackLog) :
              callbackLog[j].cb = "onAudioChunk"
                => callbackLog[i].id < callbackLog[j].id

\* a message carrying audio and turnComplete went through all four steps
\* and the call waiting for its turn has returned
C29_Witness ==
  \E m \in 1..Len(arrived) :
    /\ arrived[m].data = "pcm" /\ arrived[m].sc = "turnComplete"
    /\ Positions("onAudioChunk", m) # {}
    /\ Positions("return", m) # {}

\* the messages received after the first mark messages, up to and including
\* the first that ends a turn
TurnAfter(mark) ==
  LET ends == {k \in (mark + 1)..Len(arrived) :
                 arrived[k].sc \in {"turnComplete", "interrupted"}}
  IN IF ends = {} THEN <<>>
     ELSE SubSeq(arrived, mark + 1,
                 CHOOSE k \in ends : \A other \in ends : k <= other)

\* C30: with a single send in flight, sendText returns exactly the messages
\* received after the send, in arrival order, up to and including the first
\* message whose serverContent has turnComplete or interrupted set.
C30_ReturnsTheTurn ==
  (lastOutcome.result = "returned" /\ lastOutcome.alone)
    => /\ lastOutcome.turns # <<>>
       /\ lastOutcome.turns = TurnAfter(lastOutcome.mark)

\* a call made after one message had arrived returned the one message that
\* followed
C30_Witness ==
  /\ lastOutcome.result = "returned" /\ lastOutcome.alone
  /\ lastOutcome.mark = 1
  /\ Len(lastOutcome.turns) = 1 /\ lastOutcome.turns[1].id = 2

\* sessions created by connect() whose WebSocket is open
OpenSessions == {i \in 1..Len(sockets) : sockets[i].state = "open"}

\* C31: a GeminiLiveClient never has two sessions open at once: at most one
\* session created by connect() is unclosed at any time, whatever the
\* interleaving of connect(), onopen, onclose and disconnect().
C31_AtMostOneOpenSession == Cardinality(OpenSessions) <= 1

\* connect() was called again before the onopen of the first call: both
\* sessions are open, and the client holds at most one of them
C31_TwoSessionsOpen ==
  /\ Len(sockets) = 2
  /\ OpenSessions = {1, 2}
  /\ ~sockets[1].pending /\ ~sockets[2].pending

(***************************************************************************)
(* MicPcmStreamer: properties                                              *)
(***************************************************************************)
\* C27: if access to the microphone is denied, MicPcmStreamer.start fails
\* and leaves the streamer not running (isRunning() is false, nothing
\* held), so that a later start() attempts acquisition again.
C27_DeniedStartLeavesStopped ==
  [][/\ MicDenied => (~running' /\ micStream' = "null")
     /\ (micPending = 0 /\ micStream = "null" /\ MicStart
          /\ acquisitions < MaxAcquisitions)
          => acquisitions' = acquisitions + 1]_vars

\* C33: whenever isRunning() is false the streamer holds no MediaStream,
\* audio node or AudioContext, for every interleaving of start() and
\* stop(), including a stop() called while start() is awaiting the
\* microphone.
C33_StoppedHoldsNothing == ~running => micStream = "null"

(***************************************************************************)
(* AudioPlayer: properties                                                 *)
(***************************************************************************)
\* the sources that are sounding
Sounding == {i \in 1..Len(sourceStates) : sourceStates[i] = "playing"}

\* C34: AudioPlayer keeps currentSource equal to the source that is
\* actually playing: at most one source plays at any time, and isPlaying()
\* is true exactly while the source started last has neither ended nor been
\* stopped; the end notification of an older, replaced source does not
\* clear the record of the newer one.
C34_CurrentSourceIsThePlayingOne ==
  /\ Cardinality(Sounding) <= 1
  /\ IsPlaying <=> (sourceStates # <<>>
                     /\ sourceStates[Len(sourceStates)] = "playing")
  /\ IsPlaying => currentSource = Len(sourceStates)

(***************************************************************************)
(* One-shot chat: properties                                               *)
(***************************************************************************)
\* C28: when speech synthesis fails, the one-shot chat endpoint still
\* returns the assistant's text (audioUrl null, status 200) and the page
\* still appends the text to the message history; only audio playback is
\* skipped.
C28_TextSurvivesSynthesisFailure ==
  [][/\ \A generated \in ChatTexts :
        \A query \in VoicevoxOutcomes : \A synthesis \in VoicevoxOutcomes :
          (~(query = "ok" /\ synthesis = "ok")
             /\ ChatEndpoint(generated, query, synthesis))
            => chatResponse' = [status |-> 200, message |-> generated,
                                audioUrl |-> <<>>]
     /\ (synthesisFailed /\ ChatReceives)
          => /\ chatMessages' =
                  Append(chatMessages, [role |-> "assistant",
                                        content |-> chatResponse.message])
             /\ speakCalls' = speakCalls
             /\ alerts' = alerts]_vars

\* with the model loaded, the text of a response whose synthesis failed is
\* in the history and nothing was spoken
C28_Witness ==
  /\ synthesisFailed /\ chatModel /\ chatPc = "idle"
  /\ Len(chatMessages) = 2 /\ chatMessages[2].role = "assistant"
  /\ chatMessages[2].content = chatResponse.message
  /\ chatResponse.message # <<>>
  /\ speakCalls = 0 /\ alerts = 0

====
